---- MODULE Spec2Model ----
(***************************************************************************)
(* The assembler front end of miden-vm: the AST types of                   *)
(* assembly/src/parsers/mod.rs (ProgramAst, ModuleAst, ProcedureAst) with  *)
(* their constructors, code-stream and location-stream serialization, the  *)
(* import/constant pre-pass of the parser, and the procedure scope model   *)
(* of assembly/src/procedures/mod.rs.                                      *)
(*                                                                         *)
(* Strings are sequences of bytes (0..255), a LibraryPath is the non-empty *)
(* sequence of its segments, an Option is <<>> (None) or <<v>> (Some(v)),  *)
(* a BTreeMap<String, V> is a function whose domain is its key set and     *)
(* which is iterated in the lexicographic order of its keys.               *)
(***************************************************************************)
EXTENDS Integers, Sequences, FiniteSets, TLC

VARIABLES
    pc,         \* the operation that ran last
    args,       \* the arguments handed to the constructor / the parser input
    ast,        \* the AST in hand (a Result: Ok(ast) or Err(kind))
    orig,       \* the AST the code stream `bytes` was written from
    bytes,      \* the code stream written by to_bytes (or received from outside)
    locs,       \* the source-location stream written by write_source_locations
    tokens,     \* the token stream of the parser
    pos,        \* the cursor of the token stream
    imports,    \* parse_imports: the import map built so far
    constants,  \* parse_constants: the constant map built so far
    ctx_procs,  \* ParserContext::local_procs: the procedures parsed so far
    callset,    \* a CallSet: the MAST roots a procedure may call
    dyn,        \* a Dyn block
    result      \* the value the operation under study returned

vars == <<pc, args, ast, orig, bytes, locs, tokens, pos, imports, constants,
          ctx_procs, callset, dyn, result>>

astVars == <<ast, orig, bytes, locs>>
parserVars == <<tokens, pos, imports, constants, ctx_procs>>
blockVars == <<callset, dyn>>

\* ------------------------------------------------------------------------
\* Program constants

MAX_LOCAL_PROCS == 65535
MAX_DOCS_LEN == 65535
MAX_BODY_LEN == 65535
MAX_IMPORTS == 65535
U16_MAX == 65535
MAX_LABEL_LEN == 255

\* ------------------------------------------------------------------------
\* Bounds of the model

MaxProcs == 2       \* procedures handed to a constructor
MaxBody == 1        \* nodes in a body handed to a constructor
MaxImports == 2     \* imports handed to a constructor

\* ------------------------------------------------------------------------
\* Generic helpers

None == <<>>
Some(v) == <<v>>
IsSome(o) == Len(o) = 1
Unwrap(o) == o[1]

Ok(v) == [ok |-> TRUE, val |-> v, err |-> "none"]
Err(e) == [ok |-> FALSE, val |-> <<>>, err |-> e]

Min(a, b) == IF a <= b THEN a ELSE b

SeqsUpTo(S, n) == UNION {[1..k -> S] : k \in 0..n}

Rep(n, x) == [i \in 1..n |-> x]

\* Ord for String: lexicographic on bytes (the key order of a BTreeMap).
StrLess(a, b) ==
    \E i \in 1..(Min(Len(a), Len(b)) + 1) :
        /\ \A j \in 1..(i - 1) : a[j] = b[j]
        /\ \/ i > Len(a) /\ i <= Len(b)
           \/ i <= Len(a) /\ i <= Len(b) /\ a[i] < b[i]

RECURSIVE SortedKeys(_)
SortedKeys(K) ==
    IF K = {} THEN <<>>
    ELSE LET k == CHOOSE x \in K : \A y \in K \ {x} : StrLess(x, y)
         IN <<k>> \o SortedKeys(K \ {k})

\* BTreeMap::into_values: the values in key order.
IntoValues(m) ==
    LET ks == SortedKeys(DOMAIN m) IN [i \in 1..Len(ks) |-> m[ks[i]]]

\* BTreeMap::insert: an existing key is overwritten.
MapInsert(m, k, v) == [x \in (DOMAIN m) \cup {k} |-> IF x = k THEN v ELSE m[x]]

EmptyMap == [x \in {} |-> <<>>]

\* LibraryPath::last / LibraryPath::first
PathLast(p) == p[Len(p)]
PathFirst(p) == p[1]

\* ------------------------------------------------------------------------
\* Byte writers (ByteWriter) and readers (ByteReader / SliceReader)

WriteU8(n) == <<n % 256>>
WriteU16(n) == <<n % 256, (n \div 256) % 256>>
WriteBool(b) == <<IF b THEN 1 ELSE 0>>

\* A read returns the value and the reader's new position, or the error.
ROk(v, p) == [ok |-> TRUE, val |-> v, pos |-> p, err |-> "none"]
RErr(e) == [ok |-> FALSE, val |-> <<>>, pos |-> 0, err |-> e]

\* The `?` of a read: the error as it is, or the rest of the reads applied
\* to what was read.
Try(r, Rest(_)) == IF ~r.ok THEN r ELSE Rest(r)

\* A reader's result as the Result the caller gets.
AsResult(r) == IF r.ok THEN Ok(r.val) ELSE Err(r.err)

ReadU8(bs, p) ==
    IF p > Len(bs) THEN RErr("UnexpectedEOF") ELSE ROk(bs[p], p + 1)

ReadU16(bs, p) ==
    IF p + 1 > Len(bs) THEN RErr("UnexpectedEOF")
    ELSE ROk(bs[p] + 256 * bs[p + 1], p + 2)

ReadVec(bs, p, n) ==
    IF p + n - 1 > Len(bs) THEN RErr("UnexpectedEOF")
    ELSE ROk(SubSeq(bs, p, p + n - 1), p + n)

ReadBool(bs, p) ==
    IF p > Len(bs) THEN RErr("UnexpectedEOF")
    ELSE IF bs[p] = 0 THEN ROk(FALSE, p + 1)
    ELSE IF bs[p] = 1 THEN ROk(TRUE, p + 1)
    ELSE RErr("InvalidValue")

\* core::str::from_utf8. The bytes of the model are ASCII or 0xFF, and 0xFF
\* occurs in no valid UTF-8 string.
FromUtf8Ok(bs) == \A i \in 1..Len(bs) : bs[i] < 128

\* ------------------------------------------------------------------------
\* Labels (the rules stated on ProcedureName)

IsAsciiLetter(c) == (c >= 65 /\ c <= 90) \/ (c >= 97 /\ c <= 122)
IsAsciiDigit(c) == c >= 48 /\ c <= 57
IsLabelChar(c) == IsAsciiLetter(c) \/ IsAsciiDigit(c) \/ c = 95

\* PROCEDURE_LABEL_PARSER.parse_label
ParseProcedureLabel(name) ==
    IF Len(name) = 0 THEN Err("EmptyLabel")
    ELSE IF Len(name) > MAX_LABEL_LEN
         THEN [Err("LabelTooLong") EXCEPT !.val = <<name, MAX_LABEL_LEN>>]
    ELSE IF ~IsAsciiLetter(name[1]) THEN Err("InvalidFirstLetter")
    ELSE IF \E i \in 1..Len(name) : ~IsLabelChar(name[i]) THEN Err("InvalidChars")
    ELSE Ok(name)

\* ProcedureName::MAIN_PROC_NAME: "#main"
MAIN_PROC_NAME == <<35, 109, 97, 105, 110>>

\* ProcedureName::main
ProcedureNameMain == MAIN_PROC_NAME

\* #[derive(Default)] for ProcedureName: the name is String::default().
ProcedureNameDefault == <<>>

\* A faulty try_from, which takes the name as it is.
ProcedureNameTryFromUnchecked(name) == Ok(name)

\* impl TryFrom<&str> for ProcedureName
ProcedureNameTryFrom(name) == ParseProcedureLabel(name)

\* impl Serializable for ProcedureName
ProcedureNameWrite(name) == WriteU8(Len(name)) \o name

\* impl Deserializable for ProcedureName
ProcedureNameRead(bs, p) ==
    Try(ReadU8(bs, p), LAMBDA nlen :
    Try(ReadVec(bs, nlen.pos, nlen.val), LAMBDA name :
        IF ~FromUtf8Ok(name.val) THEN RErr("InvalidValue")
        ELSE IF ~ProcedureNameTryFrom(name.val).ok THEN RErr("InvalidValue")
        ELSE ROk(name.val, name.pos)))

\* ------------------------------------------------------------------------
\* LibraryPath, Node and SourceLocation: the leaf encodings

\* impl Serializable for LibraryPath: the number of segments, then each
\* segment with its length.
RECURSIVE WriteSegments(_)
WriteSegments(segs) ==
    IF segs = <<>> THEN <<>>
    ELSE WriteU8(Len(Head(segs))) \o Head(segs) \o WriteSegments(Tail(segs))

LibraryPathWrite(path) == WriteU8(Len(path)) \o WriteSegments(path)

RECURSIVE ReadSegments(_, _, _, _)
ReadSegments(bs, p, n, acc) ==
    IF n = 0 THEN ROk(acc, p) ELSE
    Try(ReadU8(bs, p), LAMBDA slen :
    Try(ReadVec(bs, slen.pos, slen.val), LAMBDA seg :
        IF slen.val = 0 \/ ~FromUtf8Ok(seg.val) THEN RErr("InvalidValue")
        ELSE ReadSegments(bs, seg.pos, n - 1, Append(acc, seg.val))))

\* impl Deserializable for LibraryPath
LibraryPathRead(bs, p) ==
    Try(ReadU8(bs, p), LAMBDA n :
        IF n.val = 0 THEN RErr("InvalidValue")
        ELSE ReadSegments(bs, n.pos, n.val, <<>>))

\* The number of instruction opcodes; a Node is its opcode.
NumOps == 2

\* impl Serializable for Node
NodeWrite(node) == WriteU8(node)

\* impl Deserializable for Node
NodeRead(bs, p) ==
    Try(ReadU8(bs, p), LAMBDA op :
        IF op.val >= NumOps THEN RErr("InvalidValue")
        ELSE ROk(op.val, op.pos))

\* Vec<Node>::write_into: the nodes, one after the other.
NodesWrite(nodes) == [i \in 1..Len(nodes) |-> NodeWrite(nodes[i])[1]]

\* Deserializable::read_batch_from for Node
RECURSIVE NodesRead(_, _, _, _)
NodesRead(bs, p, n, acc) ==
    IF n = 0 THEN ROk(acc, p) ELSE
    Try(NodeRead(bs, p), LAMBDA node :
        NodesRead(bs, node.pos, n - 1, Append(acc, node.val)))

\* Vec<LibraryPath>::write_into
RECURSIVE PathsWrite(_)
PathsWrite(paths) ==
    IF paths = <<>> THEN <<>>
    ELSE LibraryPathWrite(Head(paths)) \o PathsWrite(Tail(paths))

\* Deserializable::read_batch_from for LibraryPath
RECURSIVE PathsRead(_, _, _, _)
PathsRead(bs, p, n, acc) ==
    IF n = 0 THEN ROk(acc, p) ELSE
    Try(LibraryPathRead(bs, p), LAMBDA path :
        PathsRead(bs, path.pos, n - 1, Append(acc, path.val)))

\* SourceLocation::default()
DefaultLocation == [line |-> 1, column |-> 1]

\* CodeBody::new: the nodes, with no locations.
CodeBodyNew(nodes) == [nodes |-> nodes, locations |-> <<>>]

\* CodeBody::with_source_locations / CodeBody::replace_locations
CodeBodyWithLocations(body, locations) ==
    [nodes |-> body.nodes, locations |-> locations]

\* CodeBody::write_source_locations: the locations held, in order. The
\* location stream is the sequence of the locations written to it.
CodeBodyWriteLocations(body) == body.locations

\* CodeBody::load_source_locations: one location per node.
CodeBodyLoadLocations(body, ls, p) ==
    LET n == Len(body.nodes) IN
    IF p + n - 1 > Len(ls) THEN RErr("UnexpectedEOF")
    ELSE ROk(CodeBodyWithLocations(body, SubSeq(ls, p, p + n - 1)), p + n)

\* SourceLocation::read_from on the location stream
LocationRead(ls, p) ==
    IF p > Len(ls) THEN RErr("UnexpectedEOF") ELSE ROk(ls[p], p + 1)

\* ------------------------------------------------------------------------
\* ProcedureAst

\* ProcedureAst::new
ProcedureAstNew(name, num_locals, body, is_export, docs) ==
    [name |-> name, docs |-> docs, num_locals |-> num_locals,
     body |-> CodeBodyNew(body), is_export |-> is_export,
     start |-> DefaultLocation]

\* ProcedureAst::with_source_locations
ProcedureAstWithSourceLocations(proc, locations, start) ==
    [proc EXCEPT !.start = start,
                 !.body = CodeBodyWithLocations(proc.body, locations)]

\* A faulty clear_locations, which drops the nodes with their locations.
ProcedureAstClearLocationsDropsNodes(proc) ==
    [proc EXCEPT !.start = DefaultLocation, !.body = CodeBodyNew(<<>>)]

\* ProcedureAst::clear_locations
ProcedureAstClearLocations(proc) ==
    [proc EXCEPT !.start = DefaultLocation,
                 !.body = CodeBodyWithLocations(proc.body, <<>>)]

\* The assert!s of ProcedureAst::write_into: TRUE when one of them fails.
ProcedureAstWritePanics(proc) ==
    \/ IsSome(proc.docs) /\ Len(Unwrap(proc.docs)) > U16_MAX
    \/ Len(proc.body.nodes) > U16_MAX

\* Option<String> docs: u16 length (0 for None), then the bytes.
DocsWrite(docs) ==
    IF IsSome(docs) THEN WriteU16(Len(Unwrap(docs))) \o Unwrap(docs)
    ELSE WriteU16(0)

\* The docs as read back: a length of 0 is None.
DocsRead(bs, p) ==
    Try(ReadU16(bs, p), LAMBDA docs_len :
        IF docs_len.val # 0 THEN
            Try(ReadVec(bs, docs_len.pos, docs_len.val), LAMBDA str :
                IF ~FromUtf8Ok(str.val) THEN RErr("InvalidValue")
                ELSE ROk(Some(str.val), str.pos))
        ELSE ROk(None, docs_len.pos))

\* impl Serializable for ProcedureAst (when no assert! fails)
ProcedureAstWrite(proc) ==
    ProcedureNameWrite(proc.name)
        \o DocsWrite(proc.docs)
        \o WriteBool(proc.is_export)
        \o WriteU16(proc.num_locals)
        \o WriteU16(Len(proc.body.nodes))
        \o NodesWrite(proc.body.nodes)

\* impl Deserializable for ProcedureAst
ProcedureAstRead(bs, p) ==
    Try(ProcedureNameRead(bs, p), LAMBDA name :
    Try(DocsRead(bs, name.pos), LAMBDA docs :
    Try(ReadBool(bs, docs.pos), LAMBDA is_export :
    Try(ReadU16(bs, is_export.pos), LAMBDA num_locals :
    Try(ReadU16(bs, num_locals.pos), LAMBDA body_len :
    Try(NodesRead(bs, body_len.pos, body_len.val, <<>>), LAMBDA nodes :
        ROk([name |-> name.val, docs |-> docs.val,
             num_locals |-> num_locals.val,
             body |-> CodeBodyNew(nodes.val), is_export |-> is_export.val,
             start |-> DefaultLocation], nodes.pos)))))))

\* Vec<ProcedureAst>::write_into
RECURSIVE ProcsWrite(_)
ProcsWrite(procs) ==
    IF procs = <<>> THEN <<>>
    ELSE ProcedureAstWrite(Head(procs)) \o ProcsWrite(Tail(procs))

\* Deserializable::read_batch_from for ProcedureAst
RECURSIVE ProcsRead(_, _, _, _)
ProcsRead(bs, p, n, acc) ==
    IF n = 0 THEN ROk(acc, p) ELSE
    Try(ProcedureAstRead(bs, p), LAMBDA proc :
        ProcsRead(bs, proc.pos, n - 1, Append(acc, proc.val)))

\* ProcedureAst::write_source_locations
ProcedureAstWriteLocations(proc) ==
    <<proc.start>> \o CodeBodyWriteLocations(proc.body)

\* ProcedureAst::load_source_locations
ProcedureAstLoadLocations(proc, ls, p) ==
    Try(LocationRead(ls, p), LAMBDA start :
    Try(CodeBodyLoadLocations(proc.body, ls, start.pos), LAMBDA body :
        ROk([proc EXCEPT !.start = start.val, !.body = body.val], body.pos)))

\* local_procs.iter().for_each(|p| p.write_source_locations(target))
RECURSIVE ProcsWriteLocations(_)
ProcsWriteLocations(procs) ==
    IF procs = <<>> THEN <<>>
    ELSE ProcedureAstWriteLocations(Head(procs))
            \o ProcsWriteLocations(Tail(procs))

\* local_procs.iter_mut().try_for_each(|p| p.load_source_locations(source))
RECURSIVE ProcsLoadLocations(_, _, _, _)
ProcsLoadLocations(procs, ls, p, acc) ==
    IF procs = <<>> THEN ROk(acc, p) ELSE
    Try(ProcedureAstLoadLocations(Head(procs), ls, p), LAMBDA proc :
        ProcsLoadLocations(Tail(procs), ls, proc.pos, Append(acc, proc.val)))

\* The import map rebuilt by from_bytes: each path keyed by its last segment.
RECURSIVE ImportsFromPaths(_, _)
ImportsFromPaths(paths, acc) ==
    IF paths = <<>> THEN acc
    ELSE ImportsFromPaths(Tail(paths),
                          MapInsert(acc, PathLast(Head(paths)), Head(paths)))

\* u16 count of the imports, then the paths in key order.
ImportsWrite(imps) ==
    WriteU16(Cardinality(DOMAIN imps)) \o PathsWrite(IntoValues(imps))

\* u16 count, the paths, and the map rebuilt from them.
ImportsRead(bs, p) ==
    Try(ReadU16(bs, p), LAMBDA num_imports :
    Try(PathsRead(bs, num_imports.pos, num_imports.val, <<>>),
        LAMBDA import_paths :
            ROk(ImportsFromPaths(import_paths.val, EmptyMap),
                import_paths.pos)))

\* ------------------------------------------------------------------------
\* ProgramAst

\* ProgramAst::new
ProgramAstNew(imps, local_procs, body) ==
    IF Cardinality(DOMAIN imps) > MAX_IMPORTS THEN Err("TooManyImports")
    ELSE IF Len(local_procs) > MAX_LOCAL_PROCS THEN Err("TooManyModuleProcs")
    ELSE Ok([imports |-> imps, local_procs |-> local_procs,
             body |-> CodeBodyNew(body), start |-> DefaultLocation])

\* ProgramAst::with_source_locations
ProgramAstWithSourceLocations(prog, locations, start) ==
    [prog EXCEPT !.start = start,
                 !.body = CodeBodyWithLocations(prog.body, locations)]

\* ProgramAst::to_bytes: Err("panic") when an assert! fails.
ProgramAstToBytes(prog) ==
    IF \/ Cardinality(DOMAIN prog.imports) > MAX_LOCAL_PROCS
       \/ Len(prog.local_procs) > MAX_LOCAL_PROCS
       \/ \E i \in 1..Len(prog.local_procs) :
             ProcedureAstWritePanics(prog.local_procs[i])
       \/ Len(prog.body.nodes) > MAX_BODY_LEN
    THEN Err("panic")
    ELSE Ok(ImportsWrite(prog.imports)
            \o WriteU16(Len(prog.local_procs))
            \o ProcsWrite(prog.local_procs)
            \o WriteU16(Len(prog.body.nodes))
            \o NodesWrite(prog.body.nodes))

\* ProgramAst::from_bytes: a limit ProgramAst::new refuses is UnknownError.
ProgramAstFromBytes(bs) ==
    AsResult(
    Try(ImportsRead(bs, 1), LAMBDA imps :
    Try(ReadU16(bs, imps.pos), LAMBDA num_local_procs :
    Try(ProcsRead(bs, num_local_procs.pos, num_local_procs.val, <<>>),
        LAMBDA local_procs :
    Try(ReadU16(bs, local_procs.pos), LAMBDA body_len :
    Try(NodesRead(bs, body_len.pos, body_len.val, <<>>), LAMBDA nodes :
        IF ProgramAstNew(imps.val, local_procs.val, nodes.val).ok
        THEN ROk(ProgramAstNew(imps.val, local_procs.val, nodes.val).val,
                 nodes.pos)
        ELSE RErr("UnknownError")))))))

\* ProgramAst::write_source_locations
ProgramAstWriteLocations(prog) ==
    <<prog.start>> \o CodeBodyWriteLocations(prog.body)
        \o ProcsWriteLocations(prog.local_procs)

\* ProgramAst::load_source_locations
ProgramAstLoadLocations(prog, ls) ==
    AsResult(
    Try(LocationRead(ls, 1), LAMBDA start :
    Try(CodeBodyLoadLocations(prog.body, ls, start.pos), LAMBDA body :
    Try(ProcsLoadLocations(prog.local_procs, ls, body.pos, <<>>),
        LAMBDA procs :
            ROk([prog EXCEPT !.start = start.val, !.body = body.val,
                             !.local_procs = procs.val], procs.pos)))))

\* ------------------------------------------------------------------------
\* ModuleAst

\* A faulty ModuleAst::new, which refuses a count that is at its limit.
ModuleAstNewOffByOne(imps, local_procs, docs) ==
    IF Cardinality(DOMAIN imps) >= MAX_IMPORTS THEN Err("TooManyImports")
    ELSE IF Len(local_procs) >= MAX_LOCAL_PROCS THEN Err("TooManyModuleProcs")
    ELSE IF IsSome(docs) /\ Len(Unwrap(docs)) >= MAX_DOCS_LEN
         THEN Err("ModuleDocsTooLong")
    ELSE Ok([imports |-> imps, docs |-> docs, local_procs |-> local_procs])

\* ModuleAst::new
ModuleAstNew(imps, local_procs, docs) ==
    IF Cardinality(DOMAIN imps) > MAX_IMPORTS THEN Err("TooManyImports")
    ELSE IF Len(local_procs) > MAX_LOCAL_PROCS THEN Err("TooManyModuleProcs")
    ELSE IF IsSome(docs) /\ Len(Unwrap(docs)) > MAX_DOCS_LEN
         THEN Err("ModuleDocsTooLong")
    ELSE Ok([imports |-> imps, docs |-> docs, local_procs |-> local_procs])

\* ModuleAst::clear_locations
ModuleAstClearLocations(mod) ==
    [mod EXCEPT !.local_procs =
        [i \in 1..Len(mod.local_procs) |->
            ProcedureAstClearLocations(mod.local_procs[i])]]

\* ModuleAst::to_bytes (impl Serializable for ModuleAst): Err("panic") when
\* an assert! fails.
ModuleAstToBytes(mod) ==
    IF \/ IsSome(mod.docs) /\ Len(Unwrap(mod.docs)) > U16_MAX
       \/ Cardinality(DOMAIN mod.imports) > MAX_LOCAL_PROCS
       \/ Len(mod.local_procs) > U16_MAX
       \/ \E i \in 1..Len(mod.local_procs) :
             ProcedureAstWritePanics(mod.local_procs[i])
    THEN Err("panic")
    ELSE Ok(DocsWrite(mod.docs)
            \o ImportsWrite(mod.imports)
            \o WriteU16(Len(mod.local_procs))
            \o ProcsWrite(mod.local_procs))

\* ModuleAst::from_bytes (impl Deserializable for ModuleAst): a limit
\* ModuleAst::new refuses is UnknownError.
ModuleAstFromBytes(bs) ==
    AsResult(
    Try(DocsRead(bs, 1), LAMBDA docs :
    Try(ImportsRead(bs, docs.pos), LAMBDA imps :
    Try(ReadU16(bs, imps.pos), LAMBDA num_local_procs :
    Try(ProcsRead(bs, num_local_procs.pos, num_local_procs.val, <<>>),
        LAMBDA local_procs :
        IF ModuleAstNew(imps.val, local_procs.val, docs.val).ok
        THEN ROk(ModuleAstNew(imps.val, local_procs.val, docs.val).val,
                 local_procs.pos)
        ELSE RErr("UnknownError"))))))

\* ModuleAst::write_source_locations
ModuleAstWriteLocations(mod) == ProcsWriteLocations(mod.local_procs)

\* ModuleAst::load_source_locations
ModuleAstLoadLocations(mod, ls) ==
    AsResult(
    Try(ProcsLoadLocations(mod.local_procs, ls, 1, <<>>), LAMBDA procs :
        ROk([mod EXCEPT !.local_procs = procs.val], procs.pos)))

\* ------------------------------------------------------------------------
\* Inputs of the AST operations

SegA == <<97>>          \* "a"
SegB == <<98>>          \* "b"
NameF == <<102>>        \* "f"
NameG == <<103>>        \* "g"
DocD == <<100>>         \* "d"

\* The (key, path) entries of the import maps handed to a constructor. A
\* caller builds the map, so a key need not be its path's last segment.
ImportEntryInputs ==
    {<<SegA, <<SegA>>>>, <<SegB, <<SegA, SegB>>>>, <<SegB, <<SegB, SegA>>>>}

\* Every import map over these entries (one path per key).
ImportInputs ==
    {[k \in {e[1] : e \in E} |-> (CHOOSE e \in E : e[1] = k)[2]] :
        E \in {X \in SUBSET ImportEntryInputs :
                 /\ Cardinality(X) <= MaxImports
                 /\ \A e1, e2 \in X : e1[1] = e2[1] => e1 = e2}}

DocsInputs == {None, Some(<<>>), Some(DocD)}

Nodes == 0..(NumOps - 1)
BodyInputs == SeqsUpTo(Nodes, MaxBody)

LocationInputs == {DefaultLocation, [line |-> 2, column |-> 5]}

\* The locations a caller binds to a body with with_source_locations: any
\* sequence no longer than the body (for a body within the model's bounds),
\* none or one per node (for an oversized body).
LocationSeqInputs(nodes) ==
    IF Len(nodes) <= MaxBody + 1 THEN SeqsUpTo(LocationInputs, Len(nodes))
    ELSE {<<>>, Rep(Len(nodes), DefaultLocation)}

\* The (num_locals, body) pairs of the procedures handed to a constructor.
ProcBodyInputs == {<<0, <<>>>>, <<258, Rep(MaxBody, 1)>>}

\* ProcedureAst values: ProcedureAst::new, then locations bound by
\* with_source_locations (as ParserContext does) when the body has nodes.
ProcInputs ==
    {ProcedureAstWithSourceLocations(
        ProcedureAstNew(n, lb[1], lb[2], e, d),
        [i \in 1..Len(lb[2]) |-> [line |-> 3, column |-> i]],
        IF lb[2] = <<>> THEN DefaultLocation ELSE [line |-> 3, column |-> 0]) :
            n \in {NameF, NameG}, lb \in ProcBodyInputs,
            e \in BOOLEAN, d \in DocsInputs}

\* A procedure whose doc comment is one byte longer than MAX_DOCS_LEN, and
\* one whose body is one node longer than MAX_BODY_LEN: ProcedureAst::new
\* takes both.
OversizedProcInputs ==
    {ProcedureAstNew(NameF, 0, <<>>, FALSE, Some(Rep(MAX_DOCS_LEN + 1, 100))),
     ProcedureAstNew(NameF, 0, Rep(MAX_BODY_LEN + 1, 0), FALSE, None)}

\* The arguments of ProgramAst::new (imports, local_procs, body) and of
\* ModuleAst::new (imports, local_procs, docs).
AstArgs ==
    [kind : {"program"}, imports : ImportInputs,
     local_procs : SeqsUpTo(ProcInputs, MaxProcs),
     body : BodyInputs, docs : {None}]
    \cup
    [kind : {"module"}, imports : ImportInputs,
     local_procs : SeqsUpTo(ProcInputs, MaxProcs),
     body : {<<>>}, docs : DocsInputs]
    \cup
    [kind : {"program", "module"}, imports : {EmptyMap},
     local_procs : {<<q>> : q \in OversizedProcInputs},
     body : {<<>>}, docs : {None}]
    \cup
    [kind : {"program"}, imports : {EmptyMap}, local_procs : {<<>>},
     body : {Rep(MAX_BODY_LEN + 1, 0)}, docs : {None}]

NoAst == Err("unset")

\* ------------------------------------------------------------------------
\* Digests, the Dyn block (core/src/program/blocks/dyn_block.rs) and the
\* CallSet (assembly/src/procedures/mod.rs)

\* Digest::default(): four zero field elements.
ZeroDigest == <<0, 0, 0, 0>>

\* Operation::op_code: one code per operation.
OpCode(op) == [op_code |-> op]

\* hasher::merge_in_domain: the digest of two digests in a domain, kept as
\* the term it is computed from.
MergeInDomain(values, domain) == [values |-> values, domain |-> domain]

\* Dyn::DOMAIN
DynDOMAIN == OpCode("Dyn")

\* A faulty Dyn::new, which hashes in the domain of the call block.
DynNewInCallDomain ==
    [hash |-> MergeInDomain(<<ZeroDigest, ZeroDigest>>, OpCode("Call"))]

\* Dyn::new
DynNew == [hash |-> MergeInDomain(<<ZeroDigest, ZeroDigest>>, DynDOMAIN)]

\* Dyn::hash
DynHash(block) == block.hash

\* impl Default for Dyn
DynDefault == DynNew

MaxDigests == 3     \* distinct MAST roots

\* The MAST roots (RpoDigest values, in their order).
Digests == 0..(MaxDigests - 1)

\* CallSet::contains
CallSetContains(set, mast_root) == mast_root \in set

\* A faulty CallSet::insert, which keeps the new root alone.
CallSetInsertReplaces(set, mast_root) == {mast_root}

\* CallSet::insert
CallSetInsert(set, mast_root) == set \cup {mast_root}

\* A faulty CallSet::append, which stops after the first item.
CallSetAppendFirstOnly(set, other) ==
    IF other = {} THEN set
    ELSE CallSetInsert(set, CHOOSE item \in other :
                                \A x \in other : item <= x)

\* CallSet::append: the items of `other` are inserted in their order.
RECURSIVE CallSetAppend(_, _)
CallSetAppend(set, other) ==
    IF other = {} THEN set
    ELSE LET item == CHOOSE i \in other : \A x \in other : i <= x
         IN CallSetAppend(CallSetInsert(set, item), other \ {item})

\* CallSet::default() and Dyn::default()
IdleBlocks ==
    /\ callset = {}
    /\ dyn = DynDefault

IdleParser ==
    /\ tokens = <<>>
    /\ pos = 0
    /\ imports = EmptyMap
    /\ constants = EmptyMap
    /\ ctx_procs = EmptyMap

IdleAst ==
    /\ ast = NoAst
    /\ orig = <<>>
    /\ bytes = <<>>
    /\ locs = <<>>

\* ------------------------------------------------------------------------
\* The AST life cycle: construct, bind locations, serialize, deserialize,
\* reload locations

AstToBytes(kind, a) ==
    IF kind = "program" THEN ProgramAstToBytes(a) ELSE ModuleAstToBytes(a)

AstFromBytes(kind, bs) ==
    IF kind = "program" THEN ProgramAstFromBytes(bs) ELSE ModuleAstFromBytes(bs)

AstWriteLocations(kind, a) ==
    IF kind = "program" THEN ProgramAstWriteLocations(a)
    ELSE ModuleAstWriteLocations(a)

AstLoadLocations(kind, a, ls) ==
    IF kind = "program" THEN ProgramAstLoadLocations(a, ls)
    ELSE ModuleAstLoadLocations(a, ls)

InitAst ==
    /\ pc = "init"
    /\ args \in AstArgs
    /\ IdleAst
    /\ IdleBlocks
    /\ IdleParser
    /\ result = NoAst

\* ProgramAst::new / ModuleAst::new on the arguments
New ==
    /\ pc = "init"
    /\ ast' = IF args.kind = "program"
              THEN ProgramAstNew(args.imports, args.local_procs, args.body)
              ELSE ModuleAstNew(args.imports, args.local_procs, args.docs)
    /\ result' = ast'
    /\ pc' = "new"
    /\ UNCHANGED <<args, orig, bytes, locs, parserVars, blockVars>>

\* ProgramAst::with_source_locations, with any locations and start
WithSourceLocations ==
    /\ pc = "new"
    /\ ast.ok
    /\ args.kind = "program"
    /\ \E ls \in LocationSeqInputs(ast.val.body.nodes),
          start \in LocationInputs :
          ast' = Ok(ProgramAstWithSourceLocations(ast.val, ls, start))
    /\ result' = ast'
    /\ pc' = "located"
    /\ UNCHANGED <<args, orig, bytes, locs, parserVars, blockVars>>

\* ModuleAst::clear_locations; orig keeps the module as it was before.
ClearLocations ==
    /\ pc = "new"
    /\ ast.ok
    /\ args.kind = "module"
    /\ orig' = ast.val
    /\ ast' = Ok(ModuleAstClearLocations(ast.val))
    /\ result' = ast'
    /\ pc' = "cleared"
    /\ UNCHANGED <<args, bytes, locs, parserVars, blockVars>>

\* to_bytes of the AST in hand; an assert! that fails ends the run.
ToBytes ==
    /\ pc \in {"new", "located", "parsed"}
    /\ ast.ok
    /\ result' = AstToBytes(args.kind, ast.val)
    /\ IF result'.ok
       THEN /\ bytes' = result'.val
            /\ orig' = ast.val
            /\ pc' = "to_bytes"
       ELSE /\ pc' = "panic"
            /\ UNCHANGED <<bytes, orig>>
    /\ UNCHANGED <<args, ast, locs, parserVars, blockVars>>

\* write_source_locations of the AST that was serialized
WriteSourceLocations ==
    /\ pc = "to_bytes"
    /\ locs' = AstWriteLocations(args.kind, orig)
    /\ result' = Ok(locs')
    /\ pc' = "write_locs"
    /\ UNCHANGED <<args, ast, orig, bytes, parserVars, blockVars>>

\* from_bytes of the code stream
FromBytes ==
    /\ pc = "write_locs"
    /\ ast' = AstFromBytes(args.kind, bytes)
    /\ result' = ast'
    /\ pc' = "from_bytes"
    /\ UNCHANGED <<args, orig, bytes, locs, parserVars, blockVars>>

\* load_source_locations of the location stream onto the decoded AST
LoadSourceLocations ==
    /\ pc = "from_bytes"
    /\ ast.ok
    /\ ast' = AstLoadLocations(args.kind, ast.val, locs)
    /\ result' = ast'
    /\ pc' = "load_locs"
    /\ UNCHANGED <<args, orig, bytes, locs, parserVars, blockVars>>

NextAst ==
    \/ New
    \/ WithSourceLocations
    \/ ToBytes
    \/ WriteSourceLocations
    \/ FromBytes
    \/ LoadSourceLocations

SpecAst == InitAst /\ [][NextAst]_vars

\* ------------------------------------------------------------------------
\* Clearing the locations of a module

MaxClearProcs == 2      \* procedures of the module whose locations are cleared

ClearArgs ==
    [kind : {"module"}, imports : ImportInputs,
     local_procs : SeqsUpTo(ProcInputs, MaxClearProcs),
     body : {<<>>}, docs : DocsInputs]

InitClear ==
    /\ pc = "init"
    /\ args \in ClearArgs
    /\ IdleAst
    /\ IdleBlocks
    /\ IdleParser
    /\ result = NoAst

NextClear ==
    \/ New
    \/ ClearLocations

SpecClear == InitClear /\ [][NextClear]_vars

\* ------------------------------------------------------------------------
\* Decoding a code stream received from outside

MaxDecodeProcs == 1     \* procedures in the ASTs whose code streams are received

\* The bytes a received stream may differ by from a written one.
TamperBytes == {0, 1, 2, 97, 255}

DecodeArgs ==
    [kind : {"program"}, imports : ImportInputs,
     local_procs : SeqsUpTo(ProcInputs, MaxDecodeProcs),
     body : BodyInputs, docs : {None}]
    \cup
    [kind : {"module"}, imports : ImportInputs,
     local_procs : SeqsUpTo(ProcInputs, MaxDecodeProcs),
     body : {<<>>}, docs : DocsInputs]

\* The code stream to_bytes writes for the AST the constructor returns.
WrittenStream(a) ==
    AstToBytes(a.kind,
               (IF a.kind = "program"
                THEN ProgramAstNew(a.imports, a.local_procs, a.body)
                ELSE ModuleAstNew(a.imports, a.local_procs, a.docs)).val).val

\* A stream arrives: one that to_bytes wrote.
InitDecode ==
    /\ pc = "received"
    /\ \E a \in DecodeArgs :
          /\ args = [kind |-> a.kind]
          /\ bytes = WrittenStream(a)
    /\ ast = NoAst
    /\ orig = <<>>
    /\ locs = <<>>
    /\ IdleParser
    /\ IdleBlocks
    /\ result = NoAst

\* The stream differs from a written one: a byte changed, or a byte appended.
Tamper ==
    /\ pc = "received"
    /\ \E v \in TamperBytes :
          \/ \E i \in 1..Len(bytes) : bytes' = [bytes EXCEPT ![i] = v]
          \/ bytes' = Append(bytes, v)
    /\ pc' = "tampered"
    /\ UNCHANGED <<args, ast, orig, locs, parserVars, result, blockVars>>

\* from_bytes of the received stream
Decode ==
    /\ pc \in {"received", "tampered"}
    /\ ast' = AstFromBytes(args.kind, bytes)
    /\ result' = ast'
    /\ pc' = "decoded"
    /\ UNCHANGED <<args, orig, bytes, locs, parserVars, blockVars>>

NextDecode ==
    \/ Tamper
    \/ Decode

SpecDecode == InitDecode /\ [][NextDecode]_vars

\* ------------------------------------------------------------------------
\* Properties of serialization

\* Every location of the AST is at its default: the start is the default
\* location and no body holds locations.
ProcLocationsDefault(proc) ==
    proc.start = DefaultLocation /\ proc.body.locations = <<>>

LocationsDefault(kind, a) ==
    /\ \A i \in 1..Len(a.local_procs) : ProcLocationsDefault(a.local_procs[i])
    /\ kind = "program" =>
          a.start = DefaultLocation /\ a.body.locations = <<>>

\* C1: for every AST the constructor accepted, with its locations at their
\* defaults, from_bytes of the stream to_bytes wrote succeeds and gives the
\* same AST (imports, docs, procedures in order, body nodes).
C1_RoundTrip ==
    (pc = "from_bytes" /\ LocationsDefault(args.kind, orig))
        => (ast.ok /\ ast.val = orig)

\* The limits the assert!s of to_bytes / write_into check.
ProcWithinLimits(proc) ==
    /\ IsSome(proc.docs) => Len(Unwrap(proc.docs)) <= U16_MAX
    /\ Len(proc.body.nodes) <= U16_MAX

WithinLimits(kind, a) ==
    /\ Cardinality(DOMAIN a.imports) <= U16_MAX
    /\ Len(a.local_procs) <= U16_MAX
    /\ \A i \in 1..Len(a.local_procs) : ProcWithinLimits(a.local_procs[i])
    /\ kind = "program" => Len(a.body.nodes) <= U16_MAX
    /\ kind = "module" =>
          (IsSome(a.docs) => Len(Unwrap(a.docs)) <= U16_MAX)

\* C3: every AST a constructor or from_bytes returned is within the limits
\* of the assert!s (imports, procedures, body nodes, every doc string at
\* most 65535), so that to_bytes never fails an assert!.
C3_AssertsNeverFail ==
    /\ ast.ok => WithinLimits(args.kind, ast.val)
    /\ pc # "panic"

\* C7: for a ProgramAst P, loading the stream P.write_source_locations wrote
\* onto from_bytes(P.to_bytes()) succeeds and gives P, locations included;
\* the stream is P's start, P's body locations, then for each procedure in
\* order its start and its body locations.
C7_LocationRoundTrip ==
    /\ (pc \in {"write_locs", "from_bytes", "load_locs"}
            /\ args.kind = "program")
        => locs = <<orig.start>> \o orig.body.locations
                    \o ProcsWriteLocations(orig.local_procs)
    /\ (pc = "from_bytes" /\ args.kind = "program") => ast.ok
    /\ (pc = "load_locs" /\ args.kind = "program")
        => (ast.ok /\ ast.val = orig)

\* C8: for every stream on which from_bytes succeeds, to_bytes of the
\* decoded AST is that stream.
C8_DecodeEncode ==
    (pc = "decoded" /\ ast.ok) => AstToBytes(args.kind, ast.val) = Ok(bytes)

\* C6: ModuleAst::clear_locations puts every procedure's start at the
\* default and empties its body locations, leaves the imports, the module
\* docs and every procedure's name, docs, export flag, local count and
\* nodes as they were, and to_bytes gives the same bytes before and after.
C6_ClearLocationsCosmetic ==
    pc = "cleared" =>
        /\ ast.val.imports = orig.imports
        /\ ast.val.docs = orig.docs
        /\ Len(ast.val.local_procs) = Len(orig.local_procs)
        /\ \A i \in 1..Len(orig.local_procs) :
              LET before == orig.local_procs[i]
                  after == ast.val.local_procs[i]
              IN /\ after.start = DefaultLocation
                 /\ after.body.locations = <<>>
                 /\ after.name = before.name
                 /\ after.docs = before.docs
                 /\ after.is_export = before.is_export
                 /\ after.num_locals = before.num_locals
                 /\ after.body.nodes = before.body.nodes
        /\ ModuleAstToBytes(orig).ok
        /\ ModuleAstToBytes(ast.val) = ModuleAstToBytes(orig)

\* A module with a procedure whose start and body locations were set has had
\* its locations cleared.
C6_Witness ==
    /\ pc = "cleared"
    /\ \E i \in 1..Len(orig.local_procs) :
          /\ orig.local_procs[i].start # DefaultLocation
          /\ orig.local_procs[i].body.locations # <<>>
          /\ IsSome(orig.local_procs[i].docs)
    /\ IsSome(orig.docs)
    /\ DOMAIN orig.imports # {}

\* ------------------------------------------------------------------------
\* The limits the constructors enforce

MaxSmall == 1       \* the small sizes tried beside the sizes at the limits

\* 65536 distinct keys: the four-letter strings over 'a'..'p'.
ManyKeys == {<<a, b, c, d>> : a \in 97..112, b \in 97..112,
                              c \in 97..112, d \in 97..112}

\* An import map of n entries, each key the last segment of its path.
ImportsOfSize(n) ==
    IF n = 0 THEN EmptyMap
    ELSE IF n <= 2 THEN [k \in (IF n = 1 THEN {SegA} ELSE {SegA, SegB}) |-> <<k>>]
    ELSE IF n = MAX_IMPORTS + 1 THEN [k \in ManyKeys |-> <<k>>]
    ELSE [k \in ManyKeys \ {<<97, 97, 97, 97>>} |-> <<k>>]

LimitSizes == (0..MaxSmall) \cup {MAX_LOCAL_PROCS, MAX_LOCAL_PROCS + 1}

LimitArgs ==
    [kind : {"program"},
     imports : {ImportsOfSize(n) : n \in LimitSizes},
     local_procs : {Rep(n, ProcedureAstNew(NameF, 0, <<>>, FALSE, None)) :
                        n \in LimitSizes},
     body : {Rep(n, 0) : n \in LimitSizes},
     docs : {None}]
    \cup
    [kind : {"module"},
     imports : {ImportsOfSize(n) : n \in LimitSizes},
     local_procs : {Rep(n, ProcedureAstNew(NameF, 0, <<>>, FALSE, None)) :
                        n \in LimitSizes},
     body : {<<>>},
     docs : {None} \cup {Some(Rep(n, 100)) : n \in LimitSizes}]

InitNew ==
    /\ pc = "init"
    /\ args \in LimitArgs
    /\ IdleAst
    /\ IdleBlocks
    /\ IdleParser
    /\ result = NoAst

NextNew == New

SpecNew == InitNew /\ [][NextNew]_vars

\* The errors of the limits the arguments exceed.
LimitsExceeded(a) ==
    (IF Cardinality(DOMAIN a.imports) > 65535
     THEN {"TooManyImports"} ELSE {})
    \cup (IF Len(a.local_procs) > 65535
          THEN {"TooManyModuleProcs"} ELSE {})
    \cup (IF a.kind = "module" /\ IsSome(a.docs) /\ Len(Unwrap(a.docs)) > 65535
          THEN {"ModuleDocsTooLong"} ELSE {})

\* C2: ProgramAst::new and ModuleAst::new return the error of a limit the
\* arguments exceed (TooManyImports, TooManyModuleProcs, ModuleDocsTooLong)
\* and never panic; with every count within its limit they return Ok with
\* the imports and the procedures they were given.
C2_LimitEnforcement ==
    /\ pc # "panic"
    /\ pc = "new" =>
          IF LimitsExceeded(args) = {}
          THEN /\ ast.ok
               /\ ast.val.imports = args.imports
               /\ ast.val.local_procs = args.local_procs
          ELSE ~ast.ok /\ ast.err \in LimitsExceeded(args)

\* A module with 65535 imports and 65536 procedures was refused for its
\* procedures.
C2_Witness ==
    /\ pc = "new"
    /\ args.kind = "module"
    /\ Cardinality(DOMAIN args.imports) = MAX_IMPORTS
    /\ Len(args.local_procs) = MAX_LOCAL_PROCS + 1
    /\ ~ast.ok
    /\ ast.err = "TooManyModuleProcs"

\* ------------------------------------------------------------------------
\* The scope of a procedure and the callers it admits

MaxPathLen == 2     \* segments in a module path

SegAB == <<97, 98>>

ScopeSegments == {SegA, SegB, SegAB}

ScopePaths == UNION {[1..k -> ScopeSegments] : k \in 1..MaxPathLen}

\* enum ProcedureScope
ProcedureScope == {"INTERNAL", "EXPORT", "LIBRARY"}

\* enum MaterializedProcedureScope
Internal(path) == [tag |-> "Internal", path |-> path, namespace |-> <<>>]
Exported == [tag |-> "Exported", path |-> <<>>, namespace |-> <<>>]
Library(namespace) ==
    [tag |-> "Library", path |-> <<>>, namespace |-> namespace]

\* MaterializedProcedureScope::from_path
FromPath(scope, path) ==
    CASE scope = "INTERNAL" -> Internal(path)
      [] scope = "EXPORT" -> Exported
      [] scope = "LIBRARY" -> Library(PathFirst(path))

\* MaterializedProcedureScope::is_export
IsExport(self) == self.tag \in {"Exported", "Library"}

\* A faulty is_valid_invocation, which compares an internal procedure's
\* module with the caller's by their first segments.
IsValidInvocationByNamespace(self, invocation_scope) ==
    CASE self.tag = "Internal" ->
            PathFirst(self.path) = PathFirst(invocation_scope)
      [] self.tag = "Exported" -> TRUE
      [] self.tag = "Library" -> PathFirst(invocation_scope) = self.namespace

\* MaterializedProcedureScope::is_valid_invocation
IsValidInvocation(self, invocation_scope) ==
    CASE self.tag = "Internal" -> self.path = invocation_scope
      [] self.tag = "Exported" -> TRUE
      [] self.tag = "Library" -> PathFirst(invocation_scope) = self.namespace

InitScope ==
    /\ pc = "init"
    /\ args \in [scope : ProcedureScope, path : ScopePaths,
                 caller : ScopePaths]
    /\ IdleAst
    /\ IdleBlocks
    /\ IdleParser
    /\ result = NoAst

\* from_path on the declared scope and the declaring module's path
Materialize ==
    /\ pc = "init"
    /\ ast' = Ok(FromPath(args.scope, args.path))
    /\ result' = ast'
    /\ pc' = "scoped"
    /\ UNCHANGED <<args, orig, bytes, locs, parserVars, blockVars>>

\* is_valid_invocation on the caller's path
Invoke ==
    /\ pc = "scoped"
    /\ result' = Ok(IsValidInvocation(ast.val, args.caller))
    /\ pc' = "invoked"
    /\ UNCHANGED <<args, astVars, parserVars, blockVars>>

NextScope ==
    \/ Materialize
    \/ Invoke

SpecScope == InitScope /\ [][NextScope]_vars

\* C4: is_valid_invocation is true for an Internal scope exactly when the
\* caller's path is the declaring module's path, for Exported for every
\* caller, and for Library exactly when the caller's first segment is the
\* namespace.
C4_ScopeEnforcement ==
    pc = "invoked" =>
        /\ ast.val.tag = "Internal" =>
              (result.val <=> (args.caller = ast.val.path))
        /\ ast.val.tag = "Exported" => result.val
        /\ ast.val.tag = "Library" =>
              (result.val <=> (args.caller[1] = ast.val.namespace))
        /\ args.scope = "INTERNAL" =>
              ast.val.tag = "Internal" /\ ast.val.path = args.path
        /\ args.scope = "EXPORT" => ast.val.tag = "Exported"

\* An internal procedure was refused to a caller of another module of the
\* same namespace.
C4_Witness ==
    /\ pc = "invoked"
    /\ ast.val.tag = "Internal"
    /\ args.caller # ast.val.path
    /\ args.caller[1] = ast.val.path[1]
    /\ result.val = FALSE

\* ------------------------------------------------------------------------
\* Display

\* Display for u16: the decimal digits.
RECURSIVE DecimalDigits(_)
DecimalDigits(n) ==
    IF n < 10 THEN <<48 + n>>
    ELSE DecimalDigits(n \div 10) \o <<48 + (n % 10)>>

NewLine == <<10>>

\* Display for LibraryPath: the segments joined by "::".
RECURSIVE LibraryPathDisplay(_)
LibraryPathDisplay(path) ==
    IF Len(path) = 1 THEN path[1]
    ELSE path[1] \o <<58, 58>> \o LibraryPathDisplay(Tail(path))

\* Display for Node: the mnemonic of the opcode.
NodeDisplay(node) == <<111, 112, 48 + node>>

\* DisplayCodeBody: each node on a line of its own, indented four spaces a
\* level.
RECURSIVE DisplayNodes(_, _)
DisplayNodes(indent, nodes) ==
    IF nodes = <<>> THEN <<>>
    ELSE Rep(4 * indent, 32) \o NodeDisplay(Head(nodes)) \o NewLine
            \o DisplayNodes(indent, Tail(nodes))

DisplayCodeBody(indent, body) == DisplayNodes(indent, body.nodes)

\* "#! {doc}\n" when there are docs
DocsDisplay(docs) ==
    IF IsSome(docs) THEN <<35, 33, 32>> \o Unwrap(docs) \o NewLine ELSE <<>>

\* impl Display for ProcedureAst
ProcedureAstDisplay(proc) ==
    DocsDisplay(proc.docs)
        \o (IF proc.is_export THEN <<101, 120, 112, 111, 114, 116>>
            ELSE <<112, 114, 111, 99>>)
        \o <<46>> \o proc.name \o <<46>> \o DecimalDigits(proc.num_locals)
        \o NewLine
        \o DisplayCodeBody(1, proc.body)
        \o <<101, 110, 100>> \o NewLine

\* for proc in self.local_procs.iter() { writeln!(f, "{}", proc)?; }
RECURSIVE ProcsDisplay(_)
ProcsDisplay(procs) ==
    IF procs = <<>> THEN <<>>
    ELSE ProcedureAstDisplay(Head(procs)) \o NewLine
            \o ProcsDisplay(Tail(procs))

\* "use {path}\n" for each import in key order, then an empty line when
\* there are imports
RECURSIVE UsesDisplay(_)
UsesDisplay(paths) ==
    IF paths = <<>> THEN <<>>
    ELSE <<117, 115, 101, 32>> \o LibraryPathDisplay(Head(paths)) \o NewLine
            \o UsesDisplay(Tail(paths))

ImportsDisplay(imps) ==
    UsesDisplay(IntoValues(imps))
        \o (IF Cardinality(DOMAIN imps) > 0 THEN NewLine ELSE <<>>)

\* impl Display for ProgramAst
ProgramAstDisplay(prog) ==
    ImportsDisplay(prog.imports)
        \o ProcsDisplay(prog.local_procs)
        \o <<98, 101, 103, 105, 110>> \o NewLine
        \o DisplayCodeBody(1, prog.body)
        \o <<101, 110, 100>> \o NewLine

\* impl Display for ModuleAst
ModuleAstDisplay(mod) ==
    DocsDisplay(mod.docs)
        \o ImportsDisplay(mod.imports)
        \o ProcsDisplay(mod.local_procs)

\* ------------------------------------------------------------------------
\* The procedures of a parsed source, from the map to the AST

MaxSortProcs == 3   \* procedures in the map of a parsed source

\* Vec::sort_by_key: a stable sort by the key.
RECURSIVE InsertByKey(_, _)
InsertByKey(sorted, x) ==
    IF sorted = <<>> THEN <<x>>
    ELSE IF x[1] < sorted[Len(sorted)][1]
         THEN Append(InsertByKey(SubSeq(sorted, 1, Len(sorted) - 1), x),
                     sorted[Len(sorted)])
         ELSE Append(sorted, x)

RECURSIVE SortByKey(_, _)
SortByKey(seq, sorted) ==
    IF seq = <<>> THEN sorted
    ELSE SortByKey(Tail(seq), InsertByKey(sorted, Head(seq)))

\* A faulty sort_procs_into_vec, which leaves the procedures in the order
\* of the map.
SortProcsIntoVecUnsorted(proc_map) ==
    LET procedures == IntoValues(proc_map)
    IN [i \in 1..Len(procedures) |-> procedures[i][2]]

\* sort_procs_into_vec
SortProcsIntoVec(proc_map) ==
    LET procedures == SortByKey(IntoValues(proc_map), <<>>)
    IN [i \in 1..Len(procedures) |-> procedures[i][2]]

SortNames == {<<101 + i>> : i \in 1..MaxSortProcs}

SortProcOf(name) ==
    ProcedureAstWithSourceLocations(
        ProcedureAstNew(name, 12, <<1>>, name = NameG, Some(DocD)),
        <<[line |-> 3, column |-> 1]>>, [line |-> 3, column |-> 0])

\* The maps of a parser context: each procedure under its name with its
\* declaration index, no index used twice.
ProcMapInputs ==
    UNION {{[n \in S |-> <<idx[n], SortProcOf(n)>>] :
                idx \in {f \in [S -> 0..MaxSortProcs] :
                            \A a, b \in S : a # b => f[a] # f[b]}} :
           S \in SUBSET SortNames}

SortArgs ==
    [kind : {"program", "module"},
     imports : {EmptyMap, [k \in {SegB} |-> <<SegA, SegB>>]},
     proc_map : ProcMapInputs,
     body : {<<0>>},
     locations : {<<[line |-> 2, column |-> 5]>>},
     start : {[line |-> 2, column |-> 0]},
     docs : {Some(DocD)}]

InitSort ==
    /\ pc = "init"
    /\ args \in SortArgs
    /\ IdleAst
    /\ IdleBlocks
    /\ IdleParser
    /\ result = NoAst

\* The end of ProgramAst::parse and ModuleAst::parse: the procedures of the
\* context sorted into a vector, and the AST built from them.
FinishParse ==
    /\ pc = "init"
    /\ LET local_procs == SortProcsIntoVec(args.proc_map)
           prog == ProgramAstNew(args.imports, local_procs, args.body)
       IN ast' = IF args.kind = "program"
                 THEN IF prog.ok
                      THEN Ok(ProgramAstWithSourceLocations(
                                  prog.val, args.locations, args.start))
                      ELSE prog
                 ELSE ModuleAstNew(args.imports, local_procs, args.docs)
    /\ result' = ast'
    /\ pc' = "parsed"
    /\ UNCHANGED <<args, orig, bytes, locs, parserVars, blockVars>>

\* to_string of the AST in hand
Display ==
    /\ pc = "parsed"
    /\ ast.ok
    /\ result' = Ok(IF args.kind = "program" THEN ProgramAstDisplay(ast.val)
                    ELSE ModuleAstDisplay(ast.val))
    /\ pc' = "displayed"
    /\ UNCHANGED <<args, astVars, parserVars, blockVars>>

NextSort ==
    \/ FinishParse
    \/ ToBytes
    \/ Display

SpecSort == InitSort /\ [][NextSort]_vars

\* The procedures of a map by declaration index: the i-th is the one with
\* i - 1 smaller indices in the map.
DeclarationOrder(m) ==
    [i \in 1..Cardinality(DOMAIN m) |->
        m[CHOOSE k \in DOMAIN m :
            Cardinality({j \in DOMAIN m : m[j][1] < m[k][1]}) = i - 1][2]]

\* C5: sort_procs_into_vec returns the procedures of the map, each once, in
\* increasing declaration index whatever the order of their names, and
\* to_bytes and Display emit the procedures in that order.
C5_DeclarationOrder ==
    LET expected == DeclarationOrder(args.proc_map)
        n == Cardinality(DOMAIN args.proc_map)
    IN /\ pc \in {"parsed", "to_bytes", "displayed"} =>
            /\ ast.ok
            /\ ast.val.local_procs = expected
            /\ Len(ast.val.local_procs) = n
            /\ \A i, j \in 1..n :
                  i < j => args.proc_map[expected[i].name][1]
                             < args.proc_map[expected[j].name][1]
            /\ \A k \in DOMAIN args.proc_map :
                  Cardinality({i \in 1..n :
                      ast.val.local_procs[i] = args.proc_map[k][2]}) = 1
       /\ pc = "to_bytes" =>
            bytes = (IF args.kind = "program" THEN <<>>
                     ELSE DocsWrite(args.docs))
                    \o ImportsWrite(args.imports)
                    \o WriteU16(n)
                    \o ProcsWrite(expected)
                    \o (IF args.kind = "program"
                        THEN WriteU16(Len(args.body)) \o NodesWrite(args.body)
                        ELSE <<>>)
       /\ pc = "displayed" =>
            result.val = (IF args.kind = "program" THEN <<>>
                          ELSE DocsDisplay(args.docs))
                         \o ImportsDisplay(args.imports)
                         \o ProcsDisplay(expected)
                         \o (IF args.kind = "program"
                             THEN <<98, 101, 103, 105, 110, 10>>
                                    \o DisplayNodes(1, args.body)
                                    \o <<101, 110, 100, 10>>
                             ELSE <<>>)

\* Three procedures whose declaration order is the reverse of the order of
\* their names were serialized.
C5_Witness ==
    /\ pc = "to_bytes"
    /\ Len(ast.val.local_procs) = 3
    /\ StrLess(ast.val.local_procs[3].name, ast.val.local_procs[2].name)
    /\ StrLess(ast.val.local_procs[2].name, ast.val.local_procs[1].name)

\* ------------------------------------------------------------------------
\* Tokens and the token stream

\* A token is its parts, the first of them the instruction.
Token_USE == <<117, 115, 101>>
Token_CONST == <<99, 111, 110, 115, 116>>
Token_BEGIN == <<98, 101, 103, 105, 110>>

\* TokenStream::read: the token at the cursor, without consuming it.
TokenRead(toks, p) == IF p < Len(toks) THEN Some(toks[p + 1]) ELSE None

\* A parser's result with the cursor where the parser left it.
POk(v, p) == [ok |-> TRUE, val |-> v, pos |-> p, err |-> "none"]
PErr(e, p) == [ok |-> FALSE, val |-> <<>>, pos |-> p, err |-> e]

\* str::split on a character: the pieces between the separators.
RECURSIVE Split(_, _, _, _)
Split(str, sep, piece, pieces) ==
    IF str = <<>> THEN Append(pieces, piece)
    ELSE IF Head(str) = sep
         THEN Split(Tail(str), sep, <<>>, Append(pieces, piece))
         ELSE Split(Tail(str), sep, Append(piece, Head(str)), pieces)

\* The segments of a path text: a "::" leaves an empty piece between two
\* ':'.
PathSegments(pieces) ==
    [i \in 1..((Len(pieces) + 1) \div 2) |-> pieces[2 * i - 1]]

\* validate_import_path: the text is segments joined by "::", each a label.
ValidateImportPath(text) ==
    LET pieces == Split(text, 58, <<>>, <<>>) IN
    IF \/ Len(pieces) % 2 = 0
       \/ \E i \in 1..Len(pieces) : (i % 2 = 0) /\ pieces[i] # <<>>
       \/ \E i \in 1..Len(pieces) :
             (i % 2 = 1) /\ ~ParseProcedureLabel(pieces[i]).ok
    THEN Err("InvalidModulePath")
    ELSE Ok(PathSegments(pieces))

\* Token::parse_use
ParseUse(token) ==
    IF Len(token) = 1 THEN Err("MissingParam")
    ELSE IF Len(token) = 2 THEN ValidateImportPath(token[2])
    ELSE Err("ExtraParam")

\* ------------------------------------------------------------------------
\* The import pre-pass

\* A parser's result at the cursor, from the Result of a token's parse.
AtCursor(r, p) == [ok |-> r.ok, val |-> r.val, pos |-> p, err |-> r.err]

\* A faulty loop of parse_imports, which inserts without looking for the
\* module name in the map.
RECURSIVE ParseImportsLoopOverwrites(_, _, _)
ParseImportsLoopOverwrites(toks, p, imps) ==
    IF ~IsSome(TokenRead(toks, p)) THEN POk(imps, p)
    ELSE IF Unwrap(TokenRead(toks, p))[1] # Token_USE THEN POk(imps, p)
    ELSE Try(AtCursor(ParseUse(Unwrap(TokenRead(toks, p))), p),
             LAMBDA module_path :
                ParseImportsLoopOverwrites(toks, p + 1,
                    MapInsert(imps, PathLast(module_path.val),
                              module_path.val)))

\* The loop of parse_imports: while the token at the cursor is a `use`.
RECURSIVE ParseImportsLoop(_, _, _)
ParseImportsLoop(toks, p, imps) ==
    IF ~IsSome(TokenRead(toks, p)) THEN POk(imps, p)
    ELSE IF Unwrap(TokenRead(toks, p))[1] # Token_USE THEN POk(imps, p)
    ELSE Try(AtCursor(ParseUse(Unwrap(TokenRead(toks, p))), p),
             LAMBDA module_path :
                IF PathLast(module_path.val) \in DOMAIN imps
                THEN PErr("DuplicateModuleImport", p)
                ELSE ParseImportsLoop(toks, p + 1,
                        MapInsert(imps, PathLast(module_path.val),
                                  module_path.val)))

\* parse_imports
ParseImportsFn(toks, p) ==
    Try(ParseImportsLoop(toks, p, EmptyMap), LAMBDA imps :
        IF Cardinality(DOMAIN imps.val) > MAX_IMPORTS
        THEN PErr("TooManyImports", imps.pos)
        ELSE imps)

MaxTokens == 3      \* tokens in a stream given to parse_imports

ImportTokenInputs ==
    {<<Token_USE, <<97>>>>, <<Token_USE, <<98>>>>, <<Token_USE, <<97, 58, 58, 98>>>>, <<Token_USE, <<98, 58, 58, 97>>>>,
     <<Token_USE, <<98, 58, 58, 98>>>>, <<Token_USE>>, <<Token_USE, <<97>>, <<98>>>>, <<Token_USE, <<97, 58, 98>>>>,
     <<Token_BEGIN>>, <<Token_CONST, <<65, 61, 49>>>>}

InitImports ==
    /\ pc = "init"
    /\ args = <<>>
    /\ IdleAst
    /\ IdleBlocks
    /\ tokens \in SeqsUpTo(ImportTokenInputs, MaxTokens)
    /\ pos = 0
    /\ imports = EmptyMap
    /\ constants = EmptyMap
    /\ ctx_procs = EmptyMap
    /\ result = NoAst

\* parse_imports on the token stream; the map is kept when it succeeds.
ParseImports ==
    /\ pc = "init"
    /\ LET r == ParseImportsFn(tokens, pos)
       IN /\ result' = AsResult(r)
          /\ pos' = r.pos
          /\ imports' = IF r.ok THEN r.val ELSE imports
    /\ pc' = "imports"
    /\ UNCHANGED <<args, astVars, tokens, constants, ctx_procs, blockVars>>

NextImports == ParseImports

SpecImports == InitImports /\ [][NextImports]_vars

\* The number of `use` tokens at the head of the stream.
LeadingUses(toks) ==
    Cardinality({k \in 1..Len(toks) : \A i \in 1..k : toks[i][1] = Token_USE})

\* The leading `use` tokens that cannot be imported: the path is malformed,
\* or its last segment is the last segment of an earlier one.
BadUses(toks) ==
    {j \in 1..LeadingUses(toks) :
        \/ ~ParseUse(toks[j]).ok
        \/ \E i \in 1..(j - 1) :
              /\ ParseUse(toks[i]).ok
              /\ PathLast(ParseUse(toks[i]).val)
                    = PathLast(ParseUse(toks[j]).val)}

\* C9: parse_imports consumes the leading `use` tokens and stops at the
\* first other token without consuming it; a `use` whose path ends in the
\* last segment of an earlier import fails with DuplicateModuleImport and
\* no entry is overwritten; on success the map holds one entry for each
\* `use`, under the last segment of its path.
C9_ImportPrePass ==
    pc = "imports" =>
        LET n == LeadingUses(tokens)
            bad == BadUses(tokens)
        IN IF bad = {}
           THEN /\ result.ok
                /\ pos = n
                /\ n < Len(tokens) => tokens[n + 1][1] # Token_USE
                /\ Cardinality(DOMAIN imports) = n
                /\ \A i \in 1..n :
                      LET path == ParseUse(tokens[i]).val
                      IN /\ PathLast(path) \in DOMAIN imports
                         /\ imports[PathLast(path)] = path
           ELSE LET j == CHOOSE x \in bad : \A y \in bad : x <= y
                IN /\ ~result.ok
                   /\ pos = j - 1
                   /\ imports = EmptyMap
                   /\ result.err = IF ParseUse(tokens[j]).ok
                                   THEN "DuplicateModuleImport"
                                   ELSE ParseUse(tokens[j]).err

\* Two imports were read and the token after them, not a `use`, is at the
\* cursor.
C9_Witness ==
    /\ pc = "imports"
    /\ result.ok
    /\ Len(tokens) = 3
    /\ pos = 2
    /\ tokens[3][1] # Token_USE
    /\ Cardinality(DOMAIN imports) = 2
    /\ \E k \in DOMAIN imports : Len(imports[k]) = 2

\* ------------------------------------------------------------------------
\* Unsigned 64-bit integers: four 16-bit limbs, the least significant first

U64Zero == <<0, 0, 0, 0>>

\* Felt::MODULUS = 2^64 - 2^32 + 1
MODULUS == <<1, 0, 65535, 65535>>

\* The limbs of v * 10 + d from the one after those of acc on, t the wide
\* value of that limb with its carry: None when a carry leaves the last.
RECURSIVE U64Carry(_, _, _)
U64Carry(v, t, acc) ==
    IF Len(acc) = 3
    THEN IF t \div 65536 > 0 THEN None ELSE Some(Append(acc, t % 65536))
    ELSE U64Carry(v, v[Len(acc) + 2] * 10 + (t \div 65536),
                  Append(acc, t % 65536))

\* checked_mul(10) then checked_add(d): None on overflow.
U64MulAdd10(v, d) == U64Carry(v, v[1] * 10 + d, <<>>)

\* Ord for u64
U64Less(a, b) ==
    \E i \in 1..4 :
        /\ a[i] < b[i]
        /\ \A j \in (i + 1)..4 : a[j] = b[j]

\* The digits of u64::from_str, one after the other.
RECURSIVE ParseDigits(_, _)
RECURSIVE ParseDigitsFrom(_, _)
ParseDigitsFrom(digits, next) ==
    IF ~IsSome(next) THEN Err("PosOverflow")
    ELSE ParseDigits(digits, Unwrap(next))

ParseDigits(digits, acc) ==
    IF digits = <<>> THEN Ok(acc)
    ELSE IF ~IsAsciiDigit(Head(digits)) THEN Err("InvalidDigit")
    ELSE ParseDigitsFrom(Tail(digits), U64MulAdd10(acc, Head(digits) - 48))

\* str::parse::<u64>: an optional '+', then at least one decimal digit.
ParseU64(str) ==
    IF str = <<>> THEN Err("Empty")
    ELSE IF Len(str) = 1 /\ str[1] \in {43, 45} THEN Err("InvalidDigit")
    ELSE IF str[1] = 43 THEN ParseDigits(Tail(str), U64Zero)
    ELSE ParseDigits(str, U64Zero)

\* ------------------------------------------------------------------------
\* The constant pre-pass

IsUpper(c) == c >= 65 /\ c <= 90

\* CONSTANT_LABEL_PARSER.parse_label: capital letters, digits and
\* underscores, the first a letter.
ParseConstantLabel(name) ==
    IF Len(name) = 0 THEN Err("EmptyLabel")
    ELSE IF Len(name) > MAX_LABEL_LEN
         THEN [Err("LabelTooLong") EXCEPT !.val = <<name, MAX_LABEL_LEN>>]
    ELSE IF ~IsUpper(name[1]) THEN Err("InvalidFirstLetter")
    ELSE IF \E i \in 1..Len(name) :
                ~(IsUpper(name[i]) \/ IsAsciiDigit(name[i]) \/ name[i] = 95)
         THEN Err("InvalidChars")
    ELSE Ok(name)

\* Result::map_err to an error of the parser
MapErr(r, e) == IF r.ok THEN r ELSE Err(e)

\* A faulty parse_const_value, whose range includes the modulus.
ParseConstValueInclusive(const_value) ==
    Try(MapErr(ParseU64(const_value), "InvalidConstValue"), LAMBDA res :
        IF U64Less(res.val, MODULUS) \/ res.val = MODULUS THEN res
        ELSE Err("InvalidConstValue"))

\* parse_const_value: the range is 0..Felt::MODULUS.
ParseConstValue(const_value) ==
    Try(MapErr(ParseU64(const_value), "InvalidConstValue"), LAMBDA res :
        IF U64Less(res.val, MODULUS) THEN res
        ELSE Err("InvalidConstValue"))

\* The declaration `NAME=value` of parse_constant, split on '='.
ParseConstDeclaration(const_declaration) ==
    IF Len(const_declaration) = 1 THEN Err("MissingParam")
    ELSE IF Len(const_declaration) > 2 THEN Err("ExtraParam")
    ELSE Try(MapErr(ParseConstantLabel(const_declaration[1]),
                    "InvalidConstName"), LAMBDA name :
         Try(ParseConstValue(const_declaration[2]), LAMBDA value :
             Ok(<<name.val, value.val>>)))

\* parse_constant
ParseConstant(token) ==
    IF Len(token) = 1 THEN Err("MissingParam")
    ELSE IF Len(token) = 2
         THEN ParseConstDeclaration(Split(token[2], 61, <<>>, <<>>))
    ELSE Err("ExtraParam")

\* A faulty loop of parse_constants, which inserts without looking for the
\* name in the map.
RECURSIVE ParseConstantsLoopOverwrites(_, _, _)
ParseConstantsLoopOverwrites(toks, p, consts) ==
    IF ~IsSome(TokenRead(toks, p)) THEN POk(consts, p)
    ELSE IF Unwrap(TokenRead(toks, p))[1] # Token_CONST THEN POk(consts, p)
    ELSE Try(AtCursor(ParseConstant(Unwrap(TokenRead(toks, p))), p),
             LAMBDA const :
                ParseConstantsLoopOverwrites(toks, p + 1,
                    MapInsert(consts, const.val[1], const.val[2])))

\* The loop of parse_constants: while the token at the cursor is a `const`.
RECURSIVE ParseConstantsLoop(_, _, _)
ParseConstantsLoop(toks, p, consts) ==
    IF ~IsSome(TokenRead(toks, p)) THEN POk(consts, p)
    ELSE IF Unwrap(TokenRead(toks, p))[1] # Token_CONST THEN POk(consts, p)
    ELSE Try(AtCursor(ParseConstant(Unwrap(TokenRead(toks, p))), p),
             LAMBDA const :
                IF const.val[1] \in DOMAIN consts
                THEN PErr("DuplicateConstName", p)
                ELSE ParseConstantsLoop(toks, p + 1,
                        MapInsert(consts, const.val[1], const.val[2])))

\* parse_constants
ParseConstantsFn(toks, p) == ParseConstantsLoop(toks, p, EmptyMap)

MaxSuffix == 2      \* characters appended to the head of a value text
MaxConsts == 2      \* `const` tokens in a stream

\* Value texts: a head, one of them the modulus and one the greatest u64
\* each less its last digit, and any characters after it.
ValueHeads ==
    {<<>>, <<49, 56, 52, 52, 54, 55, 52, 52, 48, 54, 57, 52, 49, 52, 53, 56, 52, 51, 50>>,
     <<49, 56, 52, 52, 54, 55, 52, 52, 48, 55, 51, 55, 48, 57, 53, 53, 49, 54, 49>>}

ValueChars == {48, 49, 53, 54, 43, 97, 61}

ValueTexts ==
    {h \o t : h \in ValueHeads, t \in SeqsUpTo(ValueChars, MaxSuffix)}

FirstConstTokens ==
    {<<Token_CONST, <<65, 61>> \o v>> : v \in ValueTexts}
    \cup {<<Token_CONST>>, <<Token_CONST, <<97, 61, 49>>>>, <<Token_CONST, <<65, 61, 49>>, <<120>>>>}

LaterTokens ==
    {<<Token_CONST, <<65, 61, 49>>>>,
     <<Token_CONST, <<65, 61, 49, 56, 52, 52, 54, 55, 52, 52, 48, 54, 57, 52, 49, 52, 53, 56, 52, 51, 50, 49>>>>,
     <<Token_CONST, <<66, 61, 53>>>>, <<Token_BEGIN>>}

ConstStreams ==
    {u \o <<f>> \o l :
        u \in {<<>>, <<<<Token_USE, <<97, 58, 58, 98>>>>>>},
        f \in FirstConstTokens,
        l \in SeqsUpTo(LaterTokens, MaxConsts - 1)}

InitConst ==
    /\ pc = "init"
    /\ args = <<>>
    /\ IdleAst
    /\ IdleBlocks
    /\ tokens \in ConstStreams
    /\ pos = 0
    /\ imports = EmptyMap
    /\ constants = EmptyMap
    /\ ctx_procs = EmptyMap
    /\ result = NoAst

\* parse_constants on the token stream, after parse_imports; the map is
\* kept when it succeeds.
ParseConstants ==
    /\ pc = "imports"
    /\ result.ok
    /\ LET r == ParseConstantsFn(tokens, pos)
       IN /\ result' = AsResult(r)
          /\ pos' = r.pos
          /\ constants' = IF r.ok THEN r.val ELSE constants
    /\ pc' = "constants"
    /\ UNCHANGED <<args, astVars, tokens, imports, ctx_procs, blockVars>>

NextConst ==
    \/ ParseImports
    \/ ParseConstants

SpecConst == InitConst /\ [][NextConst]_vars

\* The decimal text of the modulus, 2^64 - 2^32 + 1.
ModulusText == <<49, 56, 52, 52, 54, 55, 52, 52, 48, 54, 57, 52, 49, 52, 53, 56, 52, 51, 50, 49>>

\* The digits of a value text: the text without a '+' at its head.
ValueDigits(text) ==
    IF text # <<>> /\ text[1] = 43 THEN Tail(text) ELSE text

\* The digits without the zeros at their head, the last digit kept.
RECURSIVE StripZeros(_)
StripZeros(digits) ==
    IF Len(digits) > 1 /\ digits[1] = 48 THEN StripZeros(Tail(digits))
    ELSE digits

\* Less-than on decimal numerals without zeros at their head.
DecimalLess(a, b) ==
    Len(a) < Len(b) \/ (Len(a) = Len(b) /\ StrLess(a, b))

\* The text is the decimal numeral of an integer v with 0 <= v < modulus.
InFieldRange(text) ==
    /\ ValueDigits(text) # <<>>
    /\ \A i \in 1..Len(ValueDigits(text)) : IsAsciiDigit(ValueDigits(text)[i])
    /\ DecimalLess(StripZeros(ValueDigits(text)), ModulusText)

\* The decimal numeral of a u64, by division by ten from the most
\* significant limb.
RECURSIVE ToDecimal(_)
ToDecimal(v) ==
    LET c4 == v[4]
        c3 == (c4 % 10) * 65536 + v[3]
        c2 == (c3 % 10) * 65536 + v[2]
        c1 == (c2 % 10) * 65536 + v[1]
        q == <<c1 \div 10, c2 \div 10, c3 \div 10, c4 \div 10>>
    IN IF q = U64Zero THEN <<48 + (c1 % 10)>>
       ELSE Append(ToDecimal(q), 48 + (c1 % 10))

\* The pieces of the declaration of a `const` token of two parts.
Declaration(token) == Split(token[2], 61, <<>>, <<>>)

\* C10: a `const` declaration is accepted only if its value text is the
\* numeral of an integer v with 0 <= v < modulus, and v is the value stored;
\* a declaration of a valid name whose value is not a number, is above the
\* u64 range or is at least the modulus fails with InvalidConstValue, and
\* does so for no other value; every value of the constant map is in
\* [0, MODULUS).
C10_ConstValueRange ==
    pc = "constants" =>
        LET first == LeadingUses(tokens) + 1
        IN /\ \A i \in first..pos :
                 /\ tokens[i][1] = Token_CONST
                 /\ Len(tokens[i]) = 2
                 /\ Len(Declaration(tokens[i])) = 2
                 /\ InFieldRange(Declaration(tokens[i])[2])
                 /\ result.ok =>
                       /\ Declaration(tokens[i])[1] \in DOMAIN constants
                       /\ ToDecimal(constants[Declaration(tokens[i])[1]])
                            = StripZeros(ValueDigits(Declaration(tokens[i])[2]))
           /\ \A k \in DOMAIN constants :
                 /\ \A i \in 1..4 : constants[k][i] \in 0..65535
                 /\ DecimalLess(ToDecimal(constants[k]), ModulusText)
           /\ ~result.ok =>
                 LET token == tokens[pos + 1]
                 IN /\ constants = EmptyMap
                    /\ (/\ Len(token) = 2
                        /\ Len(Declaration(token)) = 2
                        /\ ParseConstantLabel(Declaration(token)[1]).ok)
                       => (result.err = "InvalidConstValue"
                             <=> ~InFieldRange(Declaration(token)[2]))
                    /\ result.err = "InvalidConstValue" =>
                          /\ Len(token) = 2
                          /\ Len(Declaration(token)) = 2

\* The greatest value of the field, modulus - 1, was declared and stored.
C10_Witness ==
    /\ pc = "constants"
    /\ result.ok
    /\ pos >= 1
    /\ \E k \in DOMAIN constants : constants[k] = <<0, 0, 65535, 65535>>

\* ------------------------------------------------------------------------
\* Duplicate constant names

\* The token is `const.NAME=value`, whatever the name and the value are.
IsDeclaration(token) ==
    /\ token[1] = Token_CONST
    /\ Len(token) = 2
    /\ Len(Declaration(token)) = 2

\* The names of the declarations parse_constants accepted: those of the
\* tokens from the first after the imports to the cursor.
AcceptedNames ==
    {Declaration(tokens[i])[1] : i \in (LeadingUses(tokens) + 1)..pos}

\* The token at the cursor declares a name declared before it.
RedeclaresAtCursor ==
    /\ pos < Len(tokens)
    /\ IsDeclaration(tokens[pos + 1])
    /\ Declaration(tokens[pos + 1])[1] \in AcceptedNames

\* C11 as stated: a `const` declaration of a name declared earlier fails
\* with DuplicateConstName whatever the two values are, and the first value
\* is never replaced.
C11_DuplicateConstName ==
    pc = "constants" =>
        /\ RedeclaresAtCursor =>
              ~result.ok /\ result.err = "DuplicateConstName"
        /\ result.ok =>
              Cardinality(AcceptedNames) = pos - LeadingUses(tokens)

\* C11 amended: a `const` declaration of a name declared earlier fails; it
\* fails with DuplicateConstName when its own value is a number in
\* [0, MODULUS), and with InvalidConstValue, which is checked before the
\* name is looked up, when it is not; on success every accepted
\* declaration has a name of its own, so no value was replaced.
C11_DuplicateConstNameValid ==
    pc = "constants" =>
        /\ RedeclaresAtCursor =>
              /\ ~result.ok
              /\ constants = EmptyMap
              /\ result.err =
                    IF InFieldRange(Declaration(tokens[pos + 1])[2])
                    THEN "DuplicateConstName" ELSE "InvalidConstValue"
        /\ result.err = "DuplicateConstName" => RedeclaresAtCursor
        /\ result.ok =>
              /\ Cardinality(AcceptedNames) = pos - LeadingUses(tokens)
              /\ DOMAIN constants = AcceptedNames

\* `const.A=0` then `const.A=1`: the second declaration was refused as a
\* duplicate.
C11_Witness ==
    /\ pc = "constants"
    /\ ~result.ok
    /\ result.err = "DuplicateConstName"
    /\ pos = 1
    /\ tokens[1] = <<Token_CONST, <<65, 61, 48>>>>
    /\ tokens[2] = <<Token_CONST, <<65, 61, 49>>>>

\* ------------------------------------------------------------------------
\* The immediate parameter of an instruction

\* The widths in bits of the integer types R an instruction asks for.
Widths == {8, 16, 32, 64}

\* R::try_from(u64): the value fits R's width.
U64Fits(v, w) ==
    /\ w = 8 => v[1] < 256
    /\ \A i \in 1..4 : 16 * (i - 1) >= w => v[i] = 0

TryInto(v, w) == IF U64Fits(v, w) THEN Ok(v) ELSE Err("TryFromIntError")

\* str::parse::<R>: the decimal digits, the overflow at R's width.
ParseUInt(str, w) ==
    Try(ParseU64(str), LAMBDA v :
        IF U64Fits(v.val, w) THEN v ELSE Err("PosOverflow"))

\* parse_param
ParseParam(op, param_idx, w) ==
    MapErr(ParseUInt(op[param_idx + 1], w), "InvalidParam")

\* A faulty parse_param_with_constant_lookup, which parses the name of a
\* constant that is not in the map as a number.
ParseParamWithConstantLookupFallsBack(op, param_idx, consts, w) ==
    IF ParseConstantLabel(op[param_idx + 1]).ok
          /\ op[param_idx + 1] \in DOMAIN consts
    THEN MapErr(TryInto(consts[op[param_idx + 1]], w),
                "ConstConversionFailed")
    ELSE ParseParam(op, param_idx, w)

\* parse_param_with_constant_lookup
ParseParamWithConstantLookup(op, param_idx, consts, w) ==
    IF ParseConstantLabel(op[param_idx + 1]).ok
    THEN IF op[param_idx + 1] \notin DOMAIN consts THEN Err("ConstNotFound")
         ELSE MapErr(TryInto(consts[op[param_idx + 1]], w),
                     "ConstConversionFailed")
    ELSE ParseParam(op, param_idx, w)

MaxParamLen == 2    \* characters of a parameter text drawn from ParamChars

Token_PUSH == <<112, 117, 115, 104>>

ParamChars == {65, 66, 95, 53, 97, 43}

ParamTexts ==
    SeqsUpTo(ParamChars, MaxParamLen)
    \cup {<<50, 53, 53>>, <<50, 53, 54>>, <<54, 53, 53, 51, 53>>, <<54, 53, 53, 51, 54>>, <<52, 50, 57, 52, 57, 54, 55, 50, 57, 53>>, <<52, 50, 57, 52, 57, 54, 55, 50, 57, 54>>,
          <<49, 56, 52, 52, 54, 55, 52, 52, 48, 55, 51, 55, 48, 57, 53, 53, 49, 54, 49, 53>>, <<49, 56, 52, 52, 54, 55, 52, 52, 48, 55, 51, 55, 48, 57, 53, 53, 49, 54, 49, 54>>, <<48, 48, 55>>}

ConstDeclarationInputs ==
    {<<>>,
     <<<<Token_CONST, <<65, 61, 53>>>>>>,
     <<<<Token_CONST, <<65, 61, 50, 53, 53>>>>, <<Token_CONST, <<66, 61, 50, 53, 54>>>>>>,
     <<<<Token_CONST, <<65, 61, 54, 53, 53, 51, 53>>>>, <<Token_CONST, <<66, 61, 54, 53, 53, 51, 54>>>>>>,
     <<<<Token_CONST, <<65, 61, 52, 50, 57, 52, 57, 54, 55, 50, 57, 53>>>>, <<Token_CONST, <<66, 61, 52, 50, 57, 52, 57, 54, 55, 50, 57, 54>>>>>>,
     <<<<Token_CONST, <<65, 61, 49, 56, 52, 52, 54, 55, 52, 52, 48, 54, 57, 52, 49, 52, 53, 56, 52, 51, 50, 48>>>>, <<Token_CONST, <<66, 53, 61, 48>>>>>>}

InitParam ==
    /\ pc = "init"
    /\ args \in [param_idx : {1}, width : Widths]
    /\ IdleAst
    /\ IdleBlocks
    /\ tokens \in {c \o <<<<Token_PUSH, t>>>> :
                      c \in ConstDeclarationInputs, t \in ParamTexts}
    /\ pos = 0
    /\ imports = EmptyMap
    /\ constants = EmptyMap
    /\ ctx_procs = EmptyMap
    /\ result = NoAst

\* parse_param_with_constant_lookup on the instruction at the cursor, with
\* the constants parse_constants read.
ParseOperand ==
    /\ pc = "constants"
    /\ result.ok
    /\ IsSome(TokenRead(tokens, pos))
    /\ result' = ParseParamWithConstantLookup(
                    Unwrap(TokenRead(tokens, pos)), args.param_idx,
                    constants, args.width)
    /\ pc' = "param"
    /\ UNCHANGED <<args, astVars, parserVars, blockVars>>

NextParam ==
    \/ ParseImports
    \/ ParseConstants
    \/ ParseOperand

SpecParam == InitParam /\ [][NextParam]_vars

\* The text has the shape of a constant label: a capital letter, then
\* capital letters, digits and underscores.
LabelShaped(text) ==
    /\ text # <<>>
    /\ Len(text) <= 255
    /\ text[1] \in 65..90
    /\ \A i \in 1..Len(text) : text[i] \in (65..90) \cup (48..57) \cup {95}

\* The decimal text of 2^w.
PowerText(w) ==
    CASE w = 8 -> <<50, 53, 54>>
      [] w = 16 -> <<54, 53, 53, 51, 54>>
      [] w = 32 -> <<52, 50, 57, 52, 57, 54, 55, 50, 57, 54>>
      [] w = 64 -> <<49, 56, 52, 52, 54, 55, 52, 52, 48, 55, 51, 55, 48, 57, 53, 53, 49, 54, 49, 54>>

\* The text is the decimal numeral of an integer below 2^w.
NumeralBelow(text, w) ==
    /\ ValueDigits(text) # <<>>
    /\ \A i \in 1..Len(ValueDigits(text)) : IsAsciiDigit(ValueDigits(text)[i])
    /\ DecimalLess(StripZeros(ValueDigits(text)), PowerText(w))

\* C12: a parameter shaped as a constant label is looked up in the constant
\* map: ConstNotFound when the name is absent, ConstConversionFailed when
\* the value does not fit the instruction's type, the declared value
\* otherwise, and it is never parsed as a number; any other text is parsed
\* as a number, InvalidParam when that fails.
C12_ConstantResolution ==
    pc = "param" =>
        LET text == tokens[pos + 1][args.param_idx + 1]
            w == args.width
        IN IF LabelShaped(text)
           THEN IF text \notin DOMAIN constants
                THEN ~result.ok /\ result.err = "ConstNotFound"
                ELSE IF DecimalLess(ToDecimal(constants[text]), PowerText(w))
                     THEN result.ok /\ result.val = constants[text]
                     ELSE ~result.ok /\ result.err = "ConstConversionFailed"
           ELSE IF NumeralBelow(text, w)
                THEN /\ result.ok
                     /\ ToDecimal(result.val) = StripZeros(ValueDigits(text))
                ELSE ~result.ok /\ result.err = "InvalidParam"

\* The constant B = 256 was named where a u8 is asked for.
C12_Witness ==
    /\ pc = "param"
    /\ args.width = 8
    /\ tokens[pos + 1][2] = <<66>>
    /\ <<66>> \in DOMAIN constants
    /\ constants[<<66>>] = <<256, 0, 0, 0>>
    /\ result.err = "ConstConversionFailed"

\* ------------------------------------------------------------------------
\* Procedures and bodies (ParserContext)

Token_PROC == <<112, 114, 111, 99>>
Token_EXPORT == <<101, 120, 112, 111, 114, 116>>
Token_END == <<101, 110, 100>>
Token_ELSE == <<101, 108, 115, 101>>

\* A parser's error, reported against the token at index `at`.
PErrAt(e, at, p) == [ok |-> FALSE, val |-> at, pos |-> p, err |-> e]

\* Token::location: the token at index p is on line p + 1.
TokenLocation(p) == [line |-> p + 1, column |-> 1]

\* The token is an instruction without parameters.
IsInstruction(token) ==
    Len(token) = 1 /\ \E n \in Nodes : token[1] = NodeDisplay(n)

OpcodeOf(token) == CHOOSE n \in Nodes : token[1] = NodeDisplay(n)

\* ParserContext::parse_body: the instructions up to an `end`, an `else` or
\* the end of the input, none of which is consumed.
RECURSIVE ParseBody(_, _, _)
ParseBody(toks, p, body) ==
    IF ~IsSome(TokenRead(toks, p)) THEN POk(body, p)
    ELSE IF Unwrap(TokenRead(toks, p))[1] \in {Token_END, Token_ELSE}
         THEN POk(body, p)
    ELSE IF IsInstruction(Unwrap(TokenRead(toks, p)))
         THEN ParseBody(toks, p + 1,
                [nodes |-> Append(body.nodes,
                                  OpcodeOf(Unwrap(TokenRead(toks, p)))),
                 locations |-> Append(body.locations, TokenLocation(p))])
    ELSE PErrAt("InvalidOp", p, p)

\* Token::validate_begin / validate_end: the token has no parameters.
ValidateNoParams(token, p) ==
    IF Len(token) = 1 THEN POk(<<>>, p) ELSE PErrAt("ExtraParam", p, p)

\* Token::parse_proc / parse_export: the name and the number of locals.
ParseProcHeader(token, p) ==
    IF Len(token) = 1 THEN PErrAt("MissingParam", p, p)
    ELSE IF Len(token) > 3 THEN PErrAt("ExtraParam", p, p)
    ELSE IF ~ProcedureNameTryFrom(token[2]).ok
         THEN PErrAt("InvalidProcName", p, p)
    ELSE IF Len(token) = 2 THEN POk(<<token[2], 0>>, p)
    ELSE IF ~ParseUInt(token[3], 16).ok THEN PErrAt("InvalidParam", p, p)
    ELSE POk(<<token[2], ParseUInt(token[3], 16).val[1]>>, p)

\* The `end` of a procedure whose header is at index start.
ProcedureEnd(toks, p, start) ==
    IF ~IsSome(TokenRead(toks, p)) THEN PErrAt("UnmatchedProc", start, p)
    ELSE IF Unwrap(TokenRead(toks, p))[1] = Token_END
         THEN ValidateNoParams(Unwrap(TokenRead(toks, p)), p)
    ELSE PErrAt("UnmatchedProc", start, p)

\* ParserContext::parse_procedure
ParseProcedure(toks, p) ==
    Try(ParseProcHeader(toks[p + 1], p), LAMBDA header :
        IF p + 1 >= Len(toks) THEN PErrAt("UnexpectedEof", Len(toks), p + 1)
        ELSE
    Try(ParseBody(toks, p + 1, CodeBodyNew(<<>>)), LAMBDA body :
    Try(ProcedureEnd(toks, body.pos, p), LAMBDA end :
        POk(ProcedureAstWithSourceLocations(
                ProcedureAstNew(header.val[1], header.val[2], body.val.nodes,
                                toks[p + 1][1] = Token_EXPORT, None),
                body.val.locations, TokenLocation(p)),
            body.pos + 1))))

\* ParserContext::parse_procedures: while the token at the cursor is a
\* `proc` or an `export`.
RECURSIVE ParseProcedures(_, _, _, _)
ParseProcedures(toks, p, procs, allow_export) ==
    IF ~IsSome(TokenRead(toks, p)) THEN POk(procs, p)
    ELSE IF Unwrap(TokenRead(toks, p))[1] \notin {Token_PROC, Token_EXPORT}
         THEN POk(procs, p)
    ELSE IF Unwrap(TokenRead(toks, p))[1] = Token_EXPORT /\ ~allow_export
         THEN PErrAt("ProcExportNotAllowed", p, p)
    ELSE Try(ParseProcedure(toks, p), LAMBDA proc :
             IF proc.val.name \in DOMAIN procs
             THEN PErrAt("DuplicateProcName", p, p)
             ELSE ParseProcedures(toks, proc.pos,
                    MapInsert(procs, proc.val.name,
                              <<Cardinality(DOMAIN procs), proc.val>>),
                    allow_export))

\* ------------------------------------------------------------------------
\* ProgramAst::parse and ModuleAst::parse after the procedures

\* A faulty end of a program, which takes the end of the input for `end`.
ProgramEndLenient(toks, p, program_start) ==
    IF ~IsSome(TokenRead(toks, p)) THEN POk(<<>>, p)
    ELSE IF Unwrap(TokenRead(toks, p))[1] = Token_END
         THEN ValidateNoParams(Unwrap(TokenRead(toks, p)), p)
    ELSE IF Unwrap(TokenRead(toks, p))[1] = Token_ELSE
         THEN PErrAt("DanglingElse", p, p)
    ELSE PErrAt("UnmatchedBegin", program_start, p)

\* The `end` of the program whose `begin` is at index program_start.
ProgramEnd(toks, p, program_start) ==
    IF ~IsSome(TokenRead(toks, p))
    THEN PErrAt("UnmatchedBegin", program_start, p)
    ELSE IF Unwrap(TokenRead(toks, p))[1] = Token_END
         THEN ValidateNoParams(Unwrap(TokenRead(toks, p)), p)
    ELSE IF Unwrap(TokenRead(toks, p))[1] = Token_ELSE
         THEN PErrAt("DanglingElse", p, p)
    ELSE PErrAt("UnmatchedBegin", program_start, p)

\* The AST of a parser, or the parser's error for the one of `new`.
Built(r, p) ==
    IF r.ok THEN POk(r.val, p) ELSE PErrAt(r.err, p, p)

\* A faulty ProgramAst::parse, which does not look for the end of the
\* input after `begin`.
ParseProgramBodyNoEofCheck(toks, p, imps, procs) ==
    IF ~IsSome(TokenRead(toks, p)) THEN PErrAt("UnexpectedEof", Len(toks), p)
    ELSE IF Unwrap(TokenRead(toks, p))[1] # Token_BEGIN
         THEN PErrAt("UnexpectedToken", p, p)
    ELSE
    Try(ValidateNoParams(Unwrap(TokenRead(toks, p)), p), LAMBDA header :
    Try(ParseBody(toks, p + 1, CodeBodyNew(<<>>)), LAMBDA body :
    Try(ProgramEnd(toks, body.pos, p), LAMBDA end :
        IF IsSome(TokenRead(toks, body.pos + 1))
        THEN PErrAt("DanglingOpsAfterProgram", body.pos + 1, body.pos + 1)
        ELSE
    Try(Built(ProgramAstNew(imps, SortProcsIntoVec(procs), body.val.nodes),
              body.pos + 1), LAMBDA prog :
        POk(ProgramAstWithSourceLocations(prog.val, body.val.locations,
                                          TokenLocation(p)),
            body.pos + 1)))))

\* ProgramAst::parse from the `begin` on: the header, the body, the `end`,
\* nothing after it, and the AST.
ParseProgramBody(toks, p, imps, procs) ==
    IF ~IsSome(TokenRead(toks, p)) THEN PErrAt("UnexpectedEof", Len(toks), p)
    ELSE IF Unwrap(TokenRead(toks, p))[1] # Token_BEGIN
         THEN PErrAt("UnexpectedToken", p, p)
    ELSE
    Try(ValidateNoParams(Unwrap(TokenRead(toks, p)), p), LAMBDA header :
        IF p + 1 >= Len(toks) THEN PErrAt("UnexpectedEof", Len(toks), p + 1)
        ELSE
    Try(ParseBody(toks, p + 1, CodeBodyNew(<<>>)), LAMBDA body :
    Try(ProgramEnd(toks, body.pos, p), LAMBDA end :
        IF IsSome(TokenRead(toks, body.pos + 1))
        THEN PErrAt("DanglingOpsAfterProgram", body.pos + 1, body.pos + 1)
        ELSE
    Try(Built(ProgramAstNew(imps, SortProcsIntoVec(procs), body.val.nodes),
              body.pos + 1), LAMBDA prog :
        POk(ProgramAstWithSourceLocations(prog.val, body.val.locations,
                                          TokenLocation(p)),
            body.pos + 1)))))

\* A faulty end of ModuleAst::parse, which takes a `begin` for any other
\* token.
ParseModuleEndAnyToken(toks, p, imps, procs, docs) ==
    IF IsSome(TokenRead(toks, p))
    THEN PErrAt("DanglingOpsAfterModule", p, p)
    ELSE Built(ModuleAstNew(imps, SortProcsIntoVec(procs), docs), p)

\* ModuleAst::parse after the procedures: no token is left, and the AST.
ParseModuleEnd(toks, p, imps, procs, docs) ==
    IF IsSome(TokenRead(toks, p))
    THEN IF Unwrap(TokenRead(toks, p))[1] = Token_BEGIN
         THEN PErrAt("NotALibraryModule", p, p)
         ELSE PErrAt("DanglingOpsAfterModule", p, p)
    ELSE Built(ModuleAstNew(imps, SortProcsIntoVec(procs), docs), p)

MaxTail == 3        \* tokens after the head of a source

HeadInputs ==
    {<<>>,
     <<<<Token_USE, <<98>>>>, <<Token_CONST, <<65, 61, 49>>>>>>,
     <<<<Token_PROC, <<102>>, <<50>>>>, <<<<111, 112, 49>>>>, <<Token_END>>>>}

TailTokens ==
    {<<Token_BEGIN>>, <<Token_END>>, <<Token_ELSE>>, <<<<111, 112, 48>>>>,
     <<Token_EXPORT, <<103>>>>, <<Token_USE, <<97>>>>,
     <<Token_CONST, <<66, 61, 53>>>>}

InitParse ==
    /\ pc = "init"
    /\ args \in [kind : {"program", "module"}, docs : {Some(DocD)}]
    /\ IdleAst
    /\ IdleBlocks
    /\ tokens \in {h \o t : h \in HeadInputs,
                            t \in SeqsUpTo(TailTokens, MaxTail)}
    /\ pos = 0
    /\ imports = EmptyMap
    /\ constants = EmptyMap
    /\ ctx_procs = EmptyMap
    /\ result = NoAst

\* context.parse_procedures(&mut tokens, allow_export); the map is kept
\* when it succeeds.
ParseProcs ==
    /\ pc = "constants"
    /\ result.ok
    /\ LET r == ParseProcedures(tokens, pos, EmptyMap, args.kind = "module")
       IN /\ result' = [ok |-> r.ok, val |-> r.val, err |-> r.err]
          /\ pos' = IF r.ok THEN r.pos ELSE pos
          /\ ctx_procs' = IF r.ok THEN r.val ELSE ctx_procs
    /\ pc' = "procedures"
    /\ UNCHANGED <<args, astVars, tokens, imports, constants, blockVars>>

\* The rest of ProgramAst::parse
ParseProgramRest ==
    /\ pc = "procedures"
    /\ result.ok
    /\ args.kind = "program"
    /\ LET r == ParseProgramBody(tokens, pos, imports, ctx_procs)
       IN /\ result' = [ok |-> r.ok, val |-> r.val, err |-> r.err]
          /\ pos' = r.pos
    /\ ast' = result'
    /\ pc' = "program"
    /\ UNCHANGED <<args, orig, bytes, locs, tokens, imports, constants,
                   ctx_procs, blockVars>>

\* The rest of ModuleAst::parse
ParseModuleRest ==
    /\ pc = "procedures"
    /\ result.ok
    /\ args.kind = "module"
    /\ LET r == ParseModuleEnd(tokens, pos, imports, ctx_procs, args.docs)
       IN /\ result' = [ok |-> r.ok, val |-> r.val, err |-> r.err]
          /\ pos' = r.pos
    /\ ast' = result'
    /\ pc' = "module"
    /\ UNCHANGED <<args, orig, bytes, locs, tokens, imports, constants,
                   ctx_procs, blockVars>>

NextParse ==
    \/ ParseImports
    \/ ParseConstants
    \/ ParseProcs
    \/ ParseProgramRest
    \/ ParseModuleRest

SpecParse == InitParse /\ [][NextParse]_vars

\* The index of the first token from p on that is no instruction, the
\* length of the stream if there is none.
RECURSIVE BodyStop(_, _)
BodyStop(toks, p) ==
    IF p >= Len(toks) THEN Len(toks)
    ELSE IF IsInstruction(toks[p + 1]) THEN BodyStop(toks, p + 1)
    ELSE p

\* The program's `begin` is at index p and its body can be parsed: it is
\* not empty input, and it stops at the end of the input, an `end` or an
\* `else`.
BodyIsParsed(toks, p) ==
    /\ p + 1 < Len(toks)
    /\ toks[p + 1] = <<Token_BEGIN>>
    /\ \/ BodyStop(toks, p + 1) = Len(toks)
       \/ toks[BodyStop(toks, p + 1) + 1][1] \in {Token_END, Token_ELSE}

Failed(r, e, at) == ~r.ok /\ r.err = e /\ r.val = at

\* What ProgramAst::parse answers when the body stops at index stop.
ProgramTermination(toks, start, stop, r) ==
    /\ stop = Len(toks) => Failed(r, "UnmatchedBegin", start)
    /\ stop < Len(toks) /\ toks[stop + 1][1] \notin {Token_END, Token_ELSE}
         => Failed(r, "UnmatchedBegin", start)
    /\ stop < Len(toks) /\ toks[stop + 1][1] = Token_ELSE
         => Failed(r, "DanglingElse", stop)
    /\ stop + 1 < Len(toks) /\ toks[stop + 1] = <<Token_END>>
         => Failed(r, "DanglingOpsAfterProgram", stop + 1)
    /\ r.ok => stop + 1 = Len(toks) /\ toks[stop + 1] = <<Token_END>>

C14_ModuleHasNoBody ==
    pc = "module" =>
        /\ pos < Len(tokens) /\ tokens[pos + 1][1] = Token_BEGIN
             => Failed(result, "NotALibraryModule", pos)
        /\ pos < Len(tokens) /\ tokens[pos + 1][1] # Token_BEGIN
             => Failed(result, "DanglingOpsAfterModule", pos)
        /\ result.ok => pos = Len(tokens)

\* A module whose procedures are followed by a `begin`.
C14_Witness ==
    /\ pc = "module"
    /\ ctx_procs # EmptyMap
    /\ Failed(result, "NotALibraryModule", pos)
    /\ tokens[pos + 1] = <<Token_BEGIN>>

\* ------------------------------------------------------------------------
\* Call sets and Dyn blocks

\* args.seen keeps every root that was handed to insert or was in a set
\* handed to append.
InitBlocks ==
    /\ pc = "init"
    /\ args = [other |-> {}, item |-> 0, made |-> "default", seen |-> {}]
    /\ IdleAst
    /\ IdleParser
    /\ IdleBlocks
    /\ result = NoAst

\* self.insert(mast_root)
InsertRoot ==
    /\ \E mast_root \in Digests :
          /\ args' = [args EXCEPT !.item = mast_root,
                                  !.seen = @ \cup {mast_root}]
          /\ callset' = CallSetInsert(callset, mast_root)
    /\ pc' = "insert"
    /\ UNCHANGED <<astVars, parserVars, dyn, result>>

\* self.append(&other)
AppendOther ==
    /\ \E other \in SUBSET Digests :
          /\ args' = [args EXCEPT !.other = other, !.seen = @ \cup other]
          /\ callset' = CallSetAppend(callset, other)
    /\ pc' = "append"
    /\ UNCHANGED <<astVars, parserVars, dyn, result>>

\* self.contains(&mast_root)
Contains ==
    /\ \E mast_root \in Digests :
          /\ args' = [args EXCEPT !.item = mast_root]
          /\ result' = Ok(CallSetContains(callset, mast_root))
    /\ pc' = "contains"
    /\ UNCHANGED <<astVars, parserVars, blockVars>>

\* Dyn::new()
NewDyn ==
    /\ dyn' = DynNew
    /\ args' = [args EXCEPT !.made = "new"]
    /\ pc' = "dyn_new"
    /\ UNCHANGED <<astVars, parserVars, callset, result>>

\* Dyn::default()
DefaultDyn ==
    /\ dyn' = DynDefault
    /\ args' = [args EXCEPT !.made = "default"]
    /\ pc' = "dyn_default"
    /\ UNCHANGED <<astVars, parserVars, callset, result>>

\* dyn.hash()
HashDyn ==
    /\ result' = Ok(DynHash(dyn))
    /\ pc' = "dyn_hash"
    /\ UNCHANGED <<args, astVars, parserVars, blockVars>>

NextBlocks ==
    \/ InsertRoot
    \/ AppendOther
    \/ Contains
    \/ NewDyn
    \/ DefaultDyn
    \/ HashDyn

SpecBlocks == InitBlocks /\ [][NextBlocks]_vars

\* C15: CallSet::append is the union of the two sets, appending the same
\* set again or a set to itself changes nothing, appending in the other
\* direction gives an equal set, and inserting a digest that is present
\* leaves the set as it was.
C15_AppendIsUnion ==
    [][/\ pc' = "append" =>
            /\ callset' = callset \cup args'.other
            /\ CallSetAppend(callset', args'.other) = callset'
            /\ CallSetAppend(callset', callset') = callset'
            /\ CallSetAppend(args'.other, callset) = callset'
       /\ pc' = "insert" /\ args'.item \in callset => callset' = callset
      ]_vars

\* A set with a root of its own took two roots, one of which it had.
C15_Witness ==
    /\ pc = "append"
    /\ Cardinality(args.other) = 2
    /\ callset \ args.other # {}
    /\ Cardinality(callset) = 3

MaxNameLen == 2     \* length of the short names
MaxOver == 2        \* how far a long name passes MAX_LABEL_LEN

\* a, Z, 1, _ and #
NameChars == {97, 90, 49, 95, 35}

ShortNames == SeqsUpTo(NameChars, MaxNameLen)

\* Names around the limit: letters, with a digit or a `#` at the end.
LongNames ==
    {Rep(n, 97) \o tail :
        n \in (MAX_LABEL_LEN - 2)..(MAX_LABEL_LEN + MaxOver - 1),
        tail \in {<<97>>, <<49>>, <<35>>}}

NameInputs == ShortNames \cup LongNames \cup {MAIN_PROC_NAME}

\* Streams: a length byte and the name, whole or cut short.
NameStreams ==
    {<<Len(n)>> \o n : n \in ShortNames \cup {MAIN_PROC_NAME}}
      \cup {<<>>, <<2, 97>>, <<1, 255>>}

InitName ==
    /\ pc = "init"
    /\ args = [name |-> <<>>]
    /\ IdleAst
    /\ IdleParser
    /\ IdleBlocks
    /\ result = NoAst

\* ProcedureName::try_from(name); no stream is in hand with a new name.
TryFromName ==
    /\ \E name \in NameInputs :
          /\ args' = [name |-> name]
          /\ result' = ProcedureNameTryFrom(name)
    /\ bytes' = <<>>
    /\ pc' = "try_from"
    /\ UNCHANGED <<ast, orig, locs, parserVars, blockVars>>

\* ProcedureName::main()
MainName ==
    /\ result' = Ok(ProcedureNameMain)
    /\ args' = [name |-> <<>>]
    /\ bytes' = <<>>
    /\ pc' = "main"
    /\ UNCHANGED <<ast, orig, locs, parserVars, blockVars>>

\* ProcedureName::default()
DefaultName ==
    /\ result' = Ok(ProcedureNameDefault)
    /\ args' = [name |-> <<>>]
    /\ bytes' = <<>>
    /\ pc' = "default"
    /\ UNCHANGED <<ast, orig, locs, parserVars, blockVars>>

\* name.write_into(target): the debug assertion stops a build that has it
\* when the name is no label.
WriteName ==
    /\ pc \in {"try_from", "main", "default", "read_from"}
    /\ result.ok
    /\ \/ /\ bytes' = ProcedureNameWrite(result.val)
          /\ pc' = "write_into"
       \/ /\ ~ParseProcedureLabel(result.val).ok
          /\ bytes' = bytes
          /\ pc' = "panic"
    /\ UNCHANGED <<args, ast, orig, locs, parserVars, blockVars, result>>

\* ProcedureName::read_from(source)
ReadName ==
    /\ \E source \in NameStreams \cup {bytes} :
          /\ bytes' = source
          /\ result' = AsResult(ProcedureNameRead(source, 1))
    /\ args' = [name |-> <<>>]
    /\ pc' = "read_from"
    /\ UNCHANGED <<ast, orig, locs, parserVars, blockVars>>

NextName ==
    \/ TryFromName
    \/ MainName
    \/ DefaultName
    \/ WriteName
    \/ ReadName

SpecName == InitName /\ [][NextName]_vars

\* The name follows the grammar of a procedure label.
IsProcedureLabel(name) ==
    /\ Len(name) >= 1
    /\ Len(name) <= MAX_LABEL_LEN
    /\ IsAsciiLetter(name[1])
    /\ \A i \in 1..Len(name) :
          IsAsciiLetter(name[i]) \/ IsAsciiDigit(name[i]) \/ name[i] = 95

\* The name is well formed, its length left aside.
WellFormed(name) ==
    /\ Len(name) >= 1
    /\ IsAsciiLetter(name[1])
    /\ \A i \in 1..Len(name) :
          IsAsciiLetter(name[i]) \/ IsAsciiDigit(name[i]) \/ name[i] = 95

\* C18: ProcedureName::try_from accepts a name of one ASCII letter, and
\* rejects a well-formed name of more than MAX_LABEL_LEN bytes with
\* LabelTooLong, which carries the name and the limit; an error gives no
\* name.
C18_MaxLabelLen ==
    pc = "try_from" =>
        /\ Len(args.name) = 1 /\ IsAsciiLetter(args.name[1])
             => result = Ok(args.name)
        /\ WellFormed(args.name) /\ Len(args.name) > 255
             => /\ ~result.ok
                /\ result.err = "LabelTooLong"
                /\ result.val = <<args.name, 255>>
        /\ ~result.ok => result.val \in {<<>>, <<args.name, 255>>}

\* A well-formed name of 256 bytes was refused.
C18_Witness ==
    /\ pc = "try_from"
    /\ Len(args.name) = 256
    /\ WellFormed(args.name)
    /\ result.err = "LabelTooLong"

\* C19: every ProcedureName that try_from, main, default or read_from
\* hands out follows the grammar of a procedure label or is `#main`.
C19_TypeSafety ==
    pc \in {"try_from", "main", "default", "read_from"} /\ result.ok
        => IsProcedureLabel(result.val) \/ result.val = MAIN_PROC_NAME

\* ------------------------------------------------------------------------
\* Procedure ids

\* ProcedureId::SIZE
SIZE == 20

\* LibraryPath::kernel_path: "#sys"
KernelPath == <<<<35, 115, 121, 115>>>>

\* LibraryPath::append_unchecked: one more component, unvalidated.
AppendUnchecked(path, component) == path \o <<component>>

\* u16::to_string
U16ToString(index) == DecimalDigits(index)

\* The byte i of the stand-in for Blake3: every byte of the input and its
\* place weigh in.
RECURSIVE HashByte(_, _, _)
HashByte(bs, i, j) ==
    IF j > Len(bs) THEN (Len(bs) + i) % 256
    ELSE (bs[j] * (i + j) + 31 * HashByte(bs, i, j + 1)) % 256

\* Blake3_160::hash: twenty bytes that are a function of the input bytes.
Blake3_160(bs) == [i \in 1..20 |-> HashByte(bs, i, 1)]

\* ProcedureId::new: the first SIZE bytes of the hash of the path's text.
ProcedureIdNew(path) == SubSeq(Blake3_160(LibraryPathDisplay(path)), 1, SIZE)

\* A faulty from_name, which hashes the name without the module path.
ProcedureIdFromNameAlone(name, module_path) == ProcedureIdNew(<<name>>)

\* ProcedureId::from_name
ProcedureIdFromName(name, module_path) ==
    ProcedureIdNew(AppendUnchecked(module_path, name))

\* ProcedureId::from_kernel_name
ProcedureIdFromKernelName(name) ==
    ProcedureIdNew(AppendUnchecked(KernelPath, name))

\* ProcedureId::from_index
ProcedureIdFromIndex(index, module_path) ==
    ProcedureIdNew(AppendUnchecked(module_path, U16ToString(index)))

MaxIdName == 2      \* length of the procedure names

IdNames == SeqsUpTo({97, 49, 95}, MaxIdName) \ {<<>>}

IdIndexes == {0, 9, 10, 99, 100, 255, 256, U16_MAX}

IdPaths == {<<SegA>>, <<SegB>>, <<SegAB>>, <<SegA, SegB>>, KernelPath}

\* The arguments of an operation that takes none of them.
NoIdArgs == [path |-> KernelPath, name |-> <<97>>, index |-> 0]

InitId ==
    /\ pc = "init"
    /\ args = NoIdArgs
    /\ IdleAst
    /\ IdleParser
    /\ IdleBlocks
    /\ result = NoAst

\* ProcedureId::new(path)
NewId ==
    /\ \E path \in IdPaths :
          /\ args' = [NoIdArgs EXCEPT !.path = path]
          /\ result' = Ok(ProcedureIdNew(path))
    /\ pc' = "new"
    /\ UNCHANGED <<astVars, parserVars, blockVars>>

\* ProcedureId::from_name(name, module_path)
FromName ==
    /\ \E name \in IdNames, path \in IdPaths :
          /\ args' = [NoIdArgs EXCEPT !.path = path, !.name = name]
          /\ result' = Ok(ProcedureIdFromName(name, path))
    /\ pc' = "from_name"
    /\ UNCHANGED <<astVars, parserVars, blockVars>>

\* ProcedureId::from_index(index, module_path)
FromIndex ==
    /\ \E index \in IdIndexes, path \in IdPaths :
          /\ args' = [NoIdArgs EXCEPT !.path = path, !.index = index]
          /\ result' = Ok(ProcedureIdFromIndex(index, path))
    /\ pc' = "from_index"
    /\ UNCHANGED <<astVars, parserVars, blockVars>>

\* ProcedureId::from_kernel_name(name)
FromKernelName ==
    /\ \E name \in IdNames :
          /\ args' = [NoIdArgs EXCEPT !.name = name]
          /\ result' = Ok(ProcedureIdFromKernelName(name))
    /\ pc' = "from_kernel_name"
    /\ UNCHANGED <<astVars, parserVars, blockVars>>

NextId ==
    \/ NewId
    \/ FromName
    \/ FromIndex
    \/ FromKernelName

SpecId == InitId /\ [][NextId]_vars

\* The text of a path followed by "::" and a component.
Qualified(path, component) ==
    LibraryPathDisplay(path) \o <<58, 58>> \o component

\* The decimal text of a number below 100000, digit by digit.
DecimalText(n) ==
    LET digits == <<(n \div 10000) % 10, (n \div 1000) % 10,
                    (n \div 100) % 10, (n \div 10) % 10, n % 10>>
        first == IF \E k \in 1..4 : digits[k] # 0
                 THEN CHOOSE k \in 1..4 :
                        digits[k] # 0 /\ \A j \in 1..(k - 1) : digits[j] = 0
                 ELSE 5
    IN [k \in 1..(6 - first) |-> 48 + digits[first + k - 1]]

\* C20: a ProcedureId is the first 20 bytes of the hash of the bytes of
\* the qualified path and of nothing else: from_name hashes the module
\* path with the name appended, from_index the module path with the
\* decimal text of the index appended, and from_kernel_name is from_name
\* in the kernel path.
C20_IdDerivation ==
    /\ pc \in {"new", "from_name", "from_index", "from_kernel_name"}
         => result.ok /\ Len(result.val) = 20
    /\ pc = "new" =>
         result.val = SubSeq(Blake3_160(LibraryPathDisplay(args.path)), 1, 20)
    /\ pc = "from_name" =>
         /\ result.val = SubSeq(Blake3_160(Qualified(args.path, args.name)),
                                1, 20)
         /\ result.val = ProcedureIdNew(args.path \o <<args.name>>)
    /\ pc = "from_index" =>
         /\ result.val =
              SubSeq(Blake3_160(Qualified(args.path, DecimalText(args.index))),
                     1, 20)
         /\ result.val = ProcedureIdNew(args.path \o <<DecimalText(args.index)>>)
    /\ pc = "from_kernel_name" =>
         result.val = ProcedureIdFromName(args.name, KernelPath)

\* The id of a procedure named in a module of two segments.
C20_Witness ==
    /\ pc = "from_name"
    /\ Len(args.path) = 2
    /\ Len(args.name) = 2
    /\ result.ok
    /\ result.val # ProcedureIdNew(args.path)

\* ------------------------------------------------------------------------
\* Invariants of the ASTs in hand

\* C21: every procedure of a ProgramAst, whether parse, new or from_bytes
\* made it, has is_export = FALSE.
C21_NoExportedProcs ==
    (args.kind = "program" /\ ast.ok)
        => \A i \in 1..Len(ast.val.local_procs) :
              ~ast.val.local_procs[i].is_export

\* C22: every key of the imports of a ProgramAst or a ModuleAst, whether
\* parse, new or from_bytes made it, is the last segment of the path it
\* maps to.
C22_ImportKeys ==
    ast.ok
        => \A key \in DOMAIN ast.val.imports :
              PathLast(ast.val.imports[key]) = key

\* ------------------------------------------------------------------------
\* The order of the phases of ProgramAst::parse

\* The number of tokens from index p on that begin with the keyword.
RECURSIVE RunOf(_, _, _)
RunOf(toks, p, keyword) ==
    IF p >= Len(toks) THEN 0
    ELSE IF toks[p + 1][1] # keyword THEN 0
    ELSE 1 + RunOf(toks, p + 1, keyword)

\* The keys of the `use` tokens at the head of the stream.
LeadingImportKeys(toks) ==
    {PathLast(ParseUse(toks[i]).val) : i \in 1..RunOf(toks, 0, Token_USE)}

\* The names of the `const` tokens that follow the leading `use` tokens.
LeadingConstNames(toks) ==
    {Declaration(toks[i])[1] :
        i \in (RunOf(toks, 0, Token_USE) + 1)
                ..(RunOf(toks, 0, Token_USE)
                     + RunOf(toks, RunOf(toks, 0, Token_USE), Token_CONST))}

\* What ProgramAst::parse answers when the procedures end at index p.
ProgramStart(toks, p, r) ==
    /\ p >= Len(toks) => Failed(r, "UnexpectedEof", Len(toks))
    /\ p < Len(toks) /\ toks[p + 1][1] # Token_BEGIN
         => Failed(r, "UnexpectedToken", p)
    /\ p + 1 = Len(toks) /\ toks[p + 1] = <<Token_BEGIN>>
         => Failed(r, "UnexpectedEof", Len(toks))
    /\ r.ok => BodyIsParsed(toks, p)

\* C23: ProgramAst::parse takes the imports, then the constants, then the
\* procedures, then the body: a `use` after the first `const` or
\* procedure and a `const` after the first procedure are in no map. The
\* token after the procedures is `begin`: another token is an
\* UnexpectedToken, the end of the input there or right after `begin` is
\* an UnexpectedEof, and a ProgramAst is returned only with a parsed body.
C23_PhaseOrder ==
    [][args.kind = "program" =>
         /\ DOMAIN imports' \subseteq LeadingImportKeys(tokens)
         /\ DOMAIN constants' \subseteq LeadingConstNames(tokens)
         /\ pc' \in {"procedures", "program"} /\ pc' # pc =>
              /\ DOMAIN imports' = LeadingImportKeys(tokens)
              /\ DOMAIN constants' = LeadingConstNames(tokens)
         /\ pc = "init" => pc' \in {"init", "imports"}
         /\ pc = "imports" => pc' \in {"imports", "constants"}
         /\ pc = "constants" => pc' \in {"constants", "procedures"}
         /\ pc = "procedures" => pc' \in {"procedures", "program"}
         /\ pc = "procedures" /\ pc' = "program"
              => ProgramStart(tokens, pos, result')
      ]_vars

\* A `use` after a `const`: it stops the parser and is in no map.
C23_Witness ==
    /\ pc = "program"
    /\ args.kind = "program"
    /\ Failed(result, "UnexpectedToken", 2)
    /\ tokens[3] = <<Token_USE, <<97>>>>
    /\ DOMAIN imports = {<<98>>}
    /\ DOMAIN constants = {<<65>>}

\* C24: a CallSet only grows: every root that was inserted, or was in a
\* set when it was appended, is reported by contains after any further
\* insert and append; no operation takes a member away.
C24_CallSetOnlyGrows ==
    [][/\ \A mast_root \in args'.seen : CallSetContains(callset', mast_root)
       /\ callset \subseteq callset'
       /\ pc' = "append" => args'.other \subseteq callset'
       /\ pc' = "insert" => args'.item \in callset'
       /\ pc' = "contains" /\ pc' # pc =>
            /\ callset' = callset
            /\ args'.item \in args'.seen => result' = Ok(TRUE)
            /\ args'.item \notin callset => result' = Ok(FALSE)
      ]_vars

\* After inserts and an append, contains reports a root.
C24_Witness ==
    /\ pc = "contains"
    /\ result = Ok(TRUE)
    /\ args.other # {}
    /\ args.seen \ args.other # {}
    /\ Cardinality(args.seen) = 3

====
